---- MODULE Spec2Model ----
(***************************************************************************)
(* EVM-ERC20-Scanner: the scan / confirm / notify pipeline.                *)
(*                                                                         *)
(* Every handler is an async function of a single-threaded event loop: it  *)
(* runs atomically between two awaits, and other handlers interleave at    *)
(* every await.  A handler is therefore modelled as one action per await   *)
(* segment, with the handler's local variables kept in a record.           *)
(***************************************************************************)
EXTENDS Integers, Sequences, FiniteSets, TLC

VARIABLES
  chain,             \* the Transfer logs of the token contract on the chain
  latest,            \* height the chain gateway currently reports
  scanState,         \* the persisted ScanState singleton
  isScanning,        \* ScannerService.isScanning (in memory)
  isScanningBlocks,  \* ScannerService.isScanningBlocks, the scan-cycle lock
  timers,            \* scanInterval / confirmationInterval / webhookInterval
  startPc,           \* position of a startScanning call
  stopPc,            \* position of a stopScanning call
  proc,              \* locals of the scan cycle, manualScan and rescanMissingBlocks
  transfers,         \* the Transfer collection
  conf,              \* locals of the confirmation-loop ticks
  hook,              \* locals of the callback-eligibility (webhook) loop tick
  receiver,          \* the callback receiver: "flaky" or "up" (answers 2xx from now on)
  callbacks,         \* the PendingCallback collection
  call,              \* locals of the immediate deliveries (send...Callback)
  sweep,             \* locals of the sweeper passes (processPendingCallbacks)
  withdrawals,       \* the WithdrawalRecord collection
  wd,                \* locals of the createWithdrawal / retryWithdrawal calls
  collect,           \* CollectionService.isProcessing and the position of its pass
  caught,            \* history: the loop whose cycle last ended in a caught error
  fmt,               \* an amount, its display string and the amount read back
  answered,          \* history: what sendDepositCallback returned for a Transfer
  wallets,           \* the UserWallet collection: balance and totalReceived by address
  crashedAt,         \* history: where the scan cycle stood when the process died
  registry,          \* the Address and UserWallet collections as attribution reads them
  cache,             \* CacheService.cache: the entries of the Map in its iteration order
  attr,              \* locals of a filterTargetEvents call on a candidate set
  fetch,             \* locals of a scanTransferEvents call: chunks, attempt, abandoned
  pend,              \* WithdrawalService.isProcessing and the locals of its background pass
  coll               \* the locals of a pass of processCollections; history: its attempts

scanVars == <<chain, latest, scanState, isScanning, isScanningBlocks, timers, startPc, stopPc,
              proc, transfers, conf, hook>>

cbVars == <<receiver, callbacks, call, sweep>>

svcVars == <<withdrawals, wd, collect, caught, fmt>>

auxVars == <<registry, cache, attr, fetch, pend, coll>>

recVars == <<wallets, crashedAt, answered, auxVars>>

vars == <<scanVars, cbVars, svcVars, recVars>>

(***************************************************************************)
(* Bounds and configuration                                                *)
(***************************************************************************)
MinHeight == 7
MaxHeight == 9
Heights == MinHeight..MaxHeight

confirmationBlocks == 6
startBlockNumber == 0
collectionEnabled == TRUE   \* config.collection.enabled

\* lastScanDuration classes (ms) that select the batch size of a cycle
Durations == {0, 7000, 20000, 40000}

Min(a, b) == IF a <= b THEN a ELSE b
Max(a, b) == IF a >= b THEN a ELSE b

\* batch size of a scan cycle from the previous cycle's duration
batchSize(lastScanDuration) ==
  IF lastScanDuration > 30000 THEN 20
  ELSE IF lastScanDuration > 10000 THEN 30
  ELSE IF lastScanDuration < 5000 THEN 100
  ELSE 50

manualBatch == 10

(***************************************************************************)
(* The chain: Transfer logs of the token contract                          *)
(***************************************************************************)
Event(hash, block, to, amount) ==
  [transactionHash |-> hash, blockNumber |-> block, toAddress |-> to, amount |-> amount]

\* two events for tracked addresses and one for a foreign address
ChainA == {Event("t1", 1, "a", 5), Event("t2", 2, "x", 3), Event("t3", 3, "w", 7)}
\* one event for a wallet address and one for a foreign address
ChainB == {Event("t2", 2, "x", 3), Event("t3", 3, "w", 7)}

Subscribed == {"a"}        \* Address collection
ActiveWallets == {"w"}     \* UserWallet rows with isActive

getSubscribedAddresses(addresses) == addresses \cap Subscribed
getUserWalletAddresses(addresses) == addresses \cap ActiveWallets

\* events of a set as a sequence in (blockNumber) order, as the log query returns them
RECURSIVE SeqOf(_)
SeqOf(S) ==
  IF S = {} THEN <<>>
  ELSE LET e == CHOOSE x \in S : \A y \in S : x.blockNumber <= y.blockNumber
       IN <<e>> \o SeqOf(S \ {e})

\* getPastLogs + parse for a block range
scanTransferEvents(fromBlock, toBlock) ==
  SeqOf({e \in chain : e.blockNumber >= fromBlock /\ e.blockNumber <= toBlock})

\* the small-set path of filterTargetEvents (at most 10 distinct addresses);
\* a lookup that throws is caught inside the lookup and yields the empty set
filterTargetEvents(events, subscribedOk, walletsOk) ==
  LET toAddresses == {events[i].toAddress : i \in 1..Len(events)}
      subscribedAddresses ==
        IF subscribedOk THEN getSubscribedAddresses(toAddresses) ELSE {}
      userWalletAddresses ==
        IF walletsOk THEN getUserWalletAddresses(toAddresses) ELSE {}
      allTargetAddresses == subscribedAddresses \cup userWalletAddresses
  IN SelectSeq(events, LAMBDA e : e.toAddress \in allTargetAddresses)

(***************************************************************************)
(* filterTargetEvents by the size of the candidate set, and CacheService    *)
(***************************************************************************)
cacheAbove == 10       \* toAddresses.length > 10: the cached path
fastAbove == 1000      \* toAddresses.length > 1000: filterTargetEventsFast
fastBatch == 500       \* addresses of a batch of filterTargetEventsFast
CandidateCounts == {2, 10, 11, 1000, 1001}

\* a filterTargetEvents call keeps the number of distinct toAddresses of its
\* events (the addresses 1..count), the addresses it found to be targets and,
\* as history, the path it took and the candidates that were subscribed or an
\* active wallet when it looked
SubscribedAddress == 1
WalletAddress == 2
IdleAttr == [pc |-> "idle", count |-> 0, result |-> {}, expected |-> {},
             source |-> "none"]

\* a scanTransferEvents call keeps the chunks it has yet to query, whether the
\* range was split, the attempt it is at, the events so far and, as history,
\* the chunks it gave up
IdleFetch == [chunks |-> <<>>, chunked |-> FALSE, attempt |-> 0, events |-> <<>>,
              abandoned |-> {}]

\* CacheService.generateAddressKey: md5 of the sorted addresses joined by ','
\* under a prefix; two candidate sets have one key when they hold the same
\* addresses
generateAddressKey(addresses, prefix) == <<prefix, addresses>>

\* an entry of the Map keeps its key, its data, whether Date.now() has passed
\* its expiry and, as history, its rank by the time its key was inserted among
\* the entries that the Map holds (1 is the earliest) and whether the set
\* which wrote it deleted a key from the Map
maxSize == 3           \* CacheService.maxSize, 10000 in the source
CacheKeys == {generateAddressKey({a}, "target_addresses") : a \in 1..(maxSize + 1)}
CacheData == {{WalletAddress}}

PositionsOf(m, key) == {i \in 1..Len(m) : m[i].key = key}

\* Map.delete(key): the entry leaves the order; the entries inserted after it
\* move up one rank
MapDelete(m, key) ==
  IF PositionsOf(m, key) = {} THEN m
  ELSE LET i == CHOOSE j \in PositionsOf(m, key) : TRUE
           rest == SubSeq(m, 1, i - 1) \o SubSeq(m, i + 1, Len(m))
       IN [j \in 1..Len(rest) |->
             IF rest[j].at > m[i].at THEN [rest[j] EXCEPT !.at = @ - 1] ELSE rest[j]]

\* Map.set(key, {data, expiry}): the entry of a key that is present is
\* rewritten where it stands, a new key goes to the end of the order
MapWrite(m, key, data, evicted) ==
  IF PositionsOf(m, key) = {}
    THEN Append(m, [key |-> key, data |-> data, expired |-> FALSE, at |-> Len(m) + 1,
                    evicted |-> evicted])
    ELSE [j \in 1..Len(m) |->
            IF m[j].key = key
              THEN [m[j] EXCEPT !.data = data, !.expired = FALSE, !.evicted = evicted]
              ELSE m[j]]

\* set without the test of the size
MapSetUnbounded(m, key, data) == MapWrite(m, key, data, FALSE)

\* CacheService.set: at maxSize entries the first key of the Map is deleted,
\* then the entry is written
MapSet(m, key, data) ==
  IF Len(m) >= maxSize
    THEN MapWrite(MapDelete(m, Head(m).key), key, data, TRUE)
    ELSE MapWrite(m, key, data, FALSE)

\* the Map after CacheService.get(key): an expired entry of the key is deleted
MapAfterGet(m, key) ==
  IF \E i \in PositionsOf(m, key) : m[i].expired THEN MapDelete(m, key) ELSE m

\* CacheService.get: the data of the unexpired entry of a key, or none
CacheGet(key) == {cache[i] : i \in {j \in PositionsOf(cache, key) : ~cache[j].expired}}

\* CacheService.set on the Map as it is
CacheSet(key, data) == MapSet(cache, key, data)

\* AddressService.getSubscribedAddresses and getUserWalletAddresses on the
\* collections as they are
SubscribedIn(addresses) == addresses \cap registry.subscribed
WalletsIn(addresses) == addresses \cap registry.wallets

\* the batches of filterTargetEventsFast: toAddresses.slice(i, i + batchSize)
FastBatches(count) ==
  {{a \in 1..count : (a - 1) \div fastBatch = b} : b \in 0..((count - 1) \div fastBatch)}

\* the cached path on a miss: allTargetAddresses = new Set([...subscribedAddresses])
\* where subscribedAddresses = await this.getUserWalletAddresses(toAddresses)
CachedPathQuery(addresses) == WalletsIn(addresses)

\* subscribeAddresses / unsubscribeAddresses / getOrCreateUserWallet /
\* disableUserWallet: an address enters or leaves one of the collections
RegistryChanges ==
  /\ \/ \E s \in SUBSET {SubscribedAddress} :
          s # registry.subscribed /\ registry' = [registry EXCEPT !.subscribed = s]
     \/ \E w \in SUBSET {WalletAddress} :
          w # registry.wallets /\ registry' = [registry EXCEPT !.wallets = w]
  /\ UNCHANGED <<cache, attr, fetch, pend, coll>>
  /\ UNCHANGED <<scanVars, cbVars, svcVars, wallets, crashedAt, answered>>

\* Date.now() > item.expiry: the entry is gone for get, and stays in the Map
\* until get, has or cleanupExpired deletes it
CacheExpires ==
  /\ \E i \in 1..Len(cache) :
       /\ ~cache[i].expired
       /\ cache' = [cache EXCEPT ![i].expired = TRUE]
  /\ UNCHANGED <<registry, attr, fetch, pend, coll>>
  /\ UNCHANGED <<scanVars, cbVars, svcVars, wallets, crashedAt, answered>>

\* filterTargetEvents(events) is called with events to count distinct addresses
Attribute ==
  /\ attr.pc \in {"idle", "done"}
  /\ \E count \in CandidateCounts :
       attr' = [IdleAttr EXCEPT !.pc = "look", !.count = count]
  /\ UNCHANGED <<registry, cache, fetch, pend, coll>>
  /\ UNCHANGED <<scanVars, cbVars, svcVars, wallets, crashedAt, answered>>

\* the lookups of the path that the size selects, and the filter
AttributeLook ==
  /\ attr.pc = "look"
  /\ LET toAddresses == 1..attr.count
         expected == SubscribedIn(toAddresses) \cup WalletsIn(toAddresses)
         cacheKey == generateAddressKey(toAddresses, "target_addresses")
         done(targets, source) ==
           [attr EXCEPT !.pc = "done", !.result = toAddresses \cap targets,
                        !.expected = expected, !.source = source]
     IN IF attr.count > fastAbove
          THEN /\ attr' = done(UNION {SubscribedIn(batch) \cup WalletsIn(batch)
                                        : batch \in FastBatches(attr.count)}, "fast")
               /\ cache' = cache
        ELSE IF attr.count > cacheAbove
          THEN IF CacheGet(cacheKey) # {}
                 THEN /\ attr' = done((CHOOSE e \in CacheGet(cacheKey) : TRUE).data, "cache")
                      /\ cache' = cache
                 ELSE LET allTargetAddresses == CachedPathQuery(toAddresses)
                      IN /\ attr' = done(allTargetAddresses, "store")
                         /\ cache' = MapSet(MapAfterGet(cache, cacheKey), cacheKey,
                                            allTargetAddresses)
        ELSE /\ attr' = done(SubscribedIn(toAddresses) \cup WalletsIn(toAddresses), "small")
             /\ cache' = cache
  /\ UNCHANGED <<registry, fetch, pend, coll>>
  /\ UNCHANGED <<scanVars, cbVars, svcVars, wallets, crashedAt, answered>>

\* CacheService.set(key, data)
CacheSetCall(key) ==
  /\ \E data \in CacheData : cache' = CacheSet(key, data)
  /\ UNCHANGED <<registry, attr, fetch, pend, coll>>
  /\ UNCHANGED <<scanVars, cbVars, svcVars, wallets, crashedAt, answered>>

\* CacheService.get(key) and has(key): an expired entry of the key is deleted
CacheGetCall(key) ==
  /\ cache' = MapAfterGet(cache, key)
  /\ UNCHANGED <<registry, attr, fetch, pend, coll>>
  /\ UNCHANGED <<scanVars, cbVars, svcVars, wallets, crashedAt, answered>>

\* CacheService.delete(key)
CacheDeleteCall(key) ==
  /\ cache' = MapDelete(cache, key)
  /\ UNCHANGED <<registry, attr, fetch, pend, coll>>
  /\ UNCHANGED <<scanVars, cbVars, svcVars, wallets, crashedAt, answered>>

\* CacheService.clear()
CacheClear ==
  /\ cache' = <<>>
  /\ UNCHANGED <<registry, attr, fetch, pend, coll>>
  /\ UNCHANGED <<scanVars, cbVars, svcVars, wallets, crashedAt, answered>>

\* cleanupExpired, on its one-minute interval: every expired entry is deleted
RECURSIVE Unexpired(_)
Unexpired(m) ==
  IF \E i \in 1..Len(m) : m[i].expired
    THEN Unexpired(MapDelete(m, m[CHOOSE i \in 1..Len(m) : m[i].expired].key))
    ELSE m

CleanupExpired ==
  /\ cache' = Unexpired(cache)
  /\ UNCHANGED <<registry, attr, fetch, pend, coll>>
  /\ UNCHANGED <<scanVars, cbVars, svcVars, wallets, crashedAt, answered>>

(***************************************************************************)
(* Persisted ScanState and Transfer collection                             *)
(***************************************************************************)
NoBlock == -1   \* "lastScannedBlock argument not given"

\* ScanState.findOneAndUpdate({}, updateData, {upsert: true}); an upsert of a
\* missing document takes the schema default lastScannedBlock = 0
updateScanState(flag, lastScannedBlock) ==
  [exists |-> TRUE,
   isScanning |-> flag,
   lastScannedBlock |->
     IF lastScannedBlock # NoBlock THEN lastScannedBlock
     ELSE IF scanState.exists THEN scanState.lastScannedBlock ELSE 0]

\* a collection without the unique index accepts every insert
NoUniqueIndex(rows, hash) == TRUE

\* the unique index on Transfer.transactionHash accepts the insert
UniqueIndexAccepts(rows, hash) == \A r \in rows : r.transactionHash # hash

\* new Transfer({...status: PENDING, confirmationCount: 0, webhookSent: false})
NewTransfer(rows, event) ==
  [id |-> Cardinality(rows) + 1,
   transactionHash |-> event.transactionHash,
   blockNumber |-> event.blockNumber,
   toAddress |-> event.toAddress,
   amount |-> event.amount,
   status |-> "pending",
   confirmationCount |-> 0,
   webhookSent |-> FALSE,
   walletBalanceUpdated |-> FALSE]

(***************************************************************************)
(* Initial state: a fresh process on an empty database                     *)
(***************************************************************************)
Procs == {"scan", "manual", "rescan"}
Ticks == {1, 2}     \* confirmation ticks that may be in flight together

\* err, seen, inflight and wrote are history fields: a lookup or a save of
\* this run failed; this run met a Transfer that already existed; the
\* scan-loop cycles that have begun and have not ended; this cycle has written
\* the cursor. targets, balance and existing are targetEvents and the wallet
\* balance and the Transfer id that updateUserWalletBalances holds
IdleProc == [pc |-> "idle", fromBlock |-> 0, toBlock |-> 0, events |-> <<>>,
             err |-> FALSE, seen |-> FALSE, inflight |-> 0,
             targets |-> <<>>, balance |-> 0, existing |-> 0, wrote |-> FALSE]
\* saved is a history field: the last step of the tick was a save that the
\* store accepted
IdleConf == [pc |-> "idle", latestBlock |-> 0, docs |-> <<>>, saved |-> FALSE]
IdleHook == [pc |-> "idle", docs |-> <<>>, successfulIds |-> {}]
\* history of sendDepositCallback: the Transfers it returned true for (an
\* answer 2xx) and the Transfers it returned false for
NoAnswers == [ok |-> {}, failed |-> {}]

\* A key is <<type, relatedId, transferStatus>>; a deposit has no transferStatus
KeyW1 == <<"withdrawal", "w1", "1">>
KeyW2 == <<"withdrawal", "w1", "2">>
KeyD == <<"deposit", "t3", "">>
Keys == {KeyW1, KeyW2, KeyD}
NoKey == <<"", "", "">>

Callers == {1, 2}      \* immediate deliveries that may be in flight together
Sweepers == {1, 2}     \* sweeper passes that may be in flight together
MaxCallbacks == 2      \* rows the queue may hold
MaxFairRows == 1       \* rows the queue may hold where liveness is checked
MaxOverdue == 1        \* nextRetryIn is not tracked below -MaxOverdue

webhookMaxRetries == 3   \* WebhookService.maxRetries, the immediate attempts
callbackMaxRetries == 2  \* PendingCallback.maxRetries (20 in the source)
retryDelay == 1          \* 30 seconds, the unit of time
sweepLimit == 50

IdleCall == [pc |-> "idle", key |-> NoKey, attempt |-> 0, result |-> "none"]
NoDoc == [id |-> 0]
IdleSweep == [pc |-> "idle", batch |-> <<>>, doc |-> NoDoc, success |-> FALSE]

\* WithdrawalService calls that may be in flight together
Wds == {1, 2}
\* the processWithdrawal call of the background pass
Processor == 0
WdCalls == Wds \cup {Processor}
NoRecord == [id |-> 0]
\* a call keeps its arguments (is toAddress an address, amount), the balance it
\* read, the document it holds and, once it has returned, what it returned
IdleWd == [pc |-> "idle", kind |-> "none", validAddress |-> TRUE, amount |-> 0,
           balance |-> 0, doc |-> NoRecord, result |-> "none"]
IdleCollect == [pc |-> "idle", isProcessing |-> FALSE]
\* the background pass of the withdrawal service: whether its interval is
\* set, its lock, the records it has yet to process and, as history, the
\* passes in flight and the records the pass in hand was given
IdlePend == [pc |-> "idle", running |-> FALSE, isProcessing |-> FALSE, batch |-> <<>>,
             inflight |-> 0, given |-> 0]
\* a pass of processCollections keeps the wallet it collects and the balance
\* that getWalletsForCollection read for it and, as history, the collection
\* attempts made for the wallet, the gas-funding transfers sent to it, the
\* attempts that succeeded, the sum that the token transfers moved out of it
\* and whether the store refused a reset of the ledger balance
IdleColl == [pc |-> "idle", address |-> "none", amount |-> 0,
             attempts |-> 0, gas |-> 0, succeeded |-> 0, collected |-> 0,
             resetRefused |-> FALSE]
\* an amount is digits * 10^exp: raw amounts run to 10^30 and are kept as a
\* short mantissa and a decimal exponent
NoAmount == [digits |-> 0, exp |-> 0]
IdleFmt == [pc |-> "idle", amount |-> NoAmount, formatted |-> NoAmount, back |-> NoAmount]

\* a wallet that has received nothing
NoFunds == [balance |-> 0, totalReceived |-> 0]

\* the services after construction, but for the WithdrawalRecord collection
InitRest ==
  /\ wallets = [a \in ActiveWallets |-> NoFunds]
  /\ crashedAt = "none"
  /\ answered = NoAnswers
  /\ registry = [subscribed |-> {SubscribedAddress}, wallets |-> {WalletAddress}]
  /\ cache = <<>>
  /\ attr = IdleAttr
  /\ fetch = IdleFetch
  /\ pend = IdlePend
  /\ coll = IdleColl
  /\ wd = [w \in WdCalls |-> IdleWd]
  /\ collect = IdleCollect
  /\ caught = "none"
  /\ fmt = IdleFmt

InitServices ==
  /\ InitRest
  /\ withdrawals = {}

InitCallback ==
  /\ receiver = "flaky"
  /\ callbacks = {}
  /\ call = [c \in Callers |-> IdleCall]
  /\ sweep = [s \in Sweepers |-> IdleSweep]

InitScan ==
  /\ chain = ChainB
  /\ latest \in Heights
  /\ scanState = [exists |-> FALSE, isScanning |-> FALSE, lastScannedBlock |-> 0]
  /\ isScanning = FALSE
  /\ isScanningBlocks = FALSE
  /\ timers = [scan |-> FALSE, confirmation |-> FALSE, webhook |-> FALSE,
               sweeper |-> FALSE, collection |-> FALSE]
  /\ startPc = "idle"
  /\ stopPc = "idle"
  /\ proc = [p \in Procs |-> IdleProc]
  /\ transfers = {}
  /\ conf = [k \in Ticks |-> IdleConf]
  /\ hook = IdleHook
  /\ InitCallback
  /\ InitServices

(***************************************************************************)
(* Chain gateway                                                           *)
(***************************************************************************)
\* the node reports another height at the next getBlockNumber
GatewayHeight ==
  /\ \E h \in Heights : h # latest /\ latest' = h
  /\ UNCHANGED <<chain, scanState, isScanning, isScanningBlocks, timers, startPc,
                 stopPc, proc, transfers, conf, hook>>
  /\ UNCHANGED <<cbVars, svcVars, recVars>>

(***************************************************************************)
(* startScanning / stopScanning                                            *)
(***************************************************************************)
\* the scan range of a cycle that starts now: fromBlock/toBlock of scanNewBlocks
scanRangeNoDepth(lastScannedBlock, latestBlock, size) ==
  LET fromBlock == lastScannedBlock + 1
  IN [fromBlock |-> fromBlock, toBlock |-> Min(latestBlock, fromBlock + size)]

scanRange(lastScannedBlock, latestBlock, size) ==
  LET fromBlock == lastScannedBlock + 1
  IN [fromBlock |-> fromBlock,
      toBlock |-> Min(latestBlock - confirmationBlocks, fromBlock + size)]

ScanRange(lastScanDuration) ==
  scanRange(scanState.lastScannedBlock, latest, batchSize(lastScanDuration))

\* scanBlocks up to its first await: take the lock and enter scanNewBlocks
BeginCycleUnlocked ==
  /\ isScanningBlocks' = isScanningBlocks
  /\ proc' = [proc EXCEPT !["scan"] =
                [IdleProc EXCEPT !.pc = "state", !.inflight = proc["scan"].inflight + 1]]

BeginCycle ==
  /\ isScanningBlocks' = TRUE
  /\ proc' = [proc EXCEPT !["scan"] =
                [IdleProc EXCEPT !.pc = "state", !.inflight = proc["scan"].inflight + 1]]

\* startScanning is called: it returns at once when the engine is running
StartScanningAgain ==
  /\ startPc = "idle"
  /\ startPc' = "check"
  /\ UNCHANGED <<chain, latest, scanState, isScanning, isScanningBlocks, timers, stopPc,
                 proc, transfers, conf, hook>>
  /\ UNCHANGED <<cbVars, svcVars, recVars>>

StartScanning ==
  /\ startPc = "idle"
  /\ ~isScanning
  /\ startPc' = "check"
  /\ UNCHANGED <<chain, latest, scanState, isScanning, isScanningBlocks, timers, stopPc,
                 proc, transfers, conf, hook>>
  /\ UNCHANGED <<cbVars, svcVars, recVars>>

\* checkConnection: the liveness probe answers or not; startScanning throws
\* when it does not
StartCheck ==
  /\ startPc = "check"
  /\ \E isConnected \in BOOLEAN :
       /\ startPc' = IF isConnected THEN "init" ELSE "idle"
       /\ caught' = IF isConnected THEN caught ELSE "start"
  /\ UNCHANGED <<chain, latest, scanState, isScanning, isScanningBlocks, timers, stopPc,
                 proc, transfers, conf, hook>>
  /\ UNCHANGED <<withdrawals, wd, collect, fmt>>
  /\ UNCHANGED <<cbVars, recVars>>

\* initializeScanState: create the singleton when absent, then mark it scanning
StartInit ==
  /\ startPc = "init"
  /\ scanState' =
       [exists |-> TRUE,
        isScanning |-> TRUE,
        lastScannedBlock |-> IF scanState.exists THEN scanState.lastScannedBlock
                             ELSE startBlockNumber]
  /\ startPc' = "run"
  /\ UNCHANGED <<chain, latest, isScanning, isScanningBlocks, timers, stopPc,
                 proc, transfers, conf, hook>>
  /\ UNCHANGED <<cbVars, svcVars, recVars>>

\* initializeScanState throws: startScanning rethrows
StartInitFails ==
  /\ startPc = "init"
  /\ startPc' = "idle"
  /\ UNCHANGED <<chain, latest, scanState, isScanning, isScanningBlocks, timers, stopPc,
                 proc, transfers, conf, hook>>
  /\ UNCHANGED <<cbVars, svcVars, recVars>>

\* isScanning = true; startScanLoop (with its immediate scanBlocks call),
\* startWebhookLoop, startConfirmationLoop, startAutoCollection where the
\* collection is enabled, startCallbackRetryProcessor; the two last intervals
\* have no handle, a field says that one interval or more is set
StartRun ==
  /\ startPc = "run"
  /\ startPc' = "idle"
  /\ isScanning' = TRUE
  /\ timers' = [scan |-> TRUE, confirmation |-> TRUE, webhook |-> TRUE,
                sweeper |-> TRUE,
                collection |-> timers.collection \/ collectionEnabled]
  /\ IF isScanningBlocks
       THEN UNCHANGED <<isScanningBlocks, proc>>
       ELSE BeginCycle
  /\ UNCHANGED <<chain, latest, scanState, stopPc, transfers, conf, hook>>
  /\ UNCHANGED <<cbVars, svcVars, recVars>>

\* stopScanning up to its await: flag off, its three intervals cleared
StopScanning ==
  /\ stopPc = "idle"
  /\ stopPc' = "persist"
  /\ isScanning' = FALSE
  /\ timers' = [timers EXCEPT !.scan = FALSE, !.confirmation = FALSE,
                               !.webhook = FALSE]
  /\ UNCHANGED <<chain, latest, scanState, isScanningBlocks, startPc,
                 proc, transfers, conf, hook>>
  /\ UNCHANGED <<cbVars, svcVars, recVars>>

\* await updateScanState(false)
StopPersist ==
  /\ stopPc = "persist"
  /\ stopPc' = "idle"
  /\ scanState' = updateScanState(FALSE, NoBlock)
  /\ UNCHANGED <<chain, latest, isScanning, isScanningBlocks, timers, startPc,
                 proc, transfers, conf, hook>>
  /\ UNCHANGED <<cbVars, svcVars, recVars>>

(***************************************************************************)
(* Scan cycle, manualScan, rescanMissingBlocks                             *)
(***************************************************************************)
MaxBlock == 4   \* highest block a rescan request names

\* the handler p ends (returns or throws); the scan loop's finally releases the lock
Finish(p) ==
  /\ proc' = [proc EXCEPT ![p] =
                [IdleProc EXCEPT !.inflight = IF p = "scan" THEN proc[p].inflight - 1
                                              ELSE 0]]
  /\ isScanningBlocks' = IF p = "scan" THEN FALSE ELSE isScanningBlocks

\* the step after the save loop: the cursor write, or the end of a rescan
AfterSaveBalance(p) ==
  IF p = "rescan" THEN "idle"
  ELSE IF p = "scan" /\ proc[p].targets # <<>> THEN "balance"
  ELSE "advance"

AfterSave(p) == IF p = "rescan" THEN "idle" ELSE "advance"

\* a timer tick of the scan loop; a tick during a cycle in flight is skipped
ScanTick ==
  /\ timers.scan
  /\ isScanning
  /\ ~isScanningBlocks
  /\ BeginCycle
  /\ UNCHANGED <<chain, latest, scanState, isScanning, timers, startPc, stopPc,
                 transfers, conf, hook>>
  /\ UNCHANGED <<cbVars, svcVars, recVars>>

\* scanNewBlocks: ScanState.findOne, getLatestBlockNumber, the range
ScanRead ==
  /\ proc["scan"].pc = "state"
  /\ \/ /\ scanState.exists
        /\ \E d \in Durations :
             LET r == ScanRange(d)
             IN IF r.fromBlock > r.toBlock
                  THEN Finish("scan")
                  ELSE /\ proc' = [proc EXCEPT !["scan"] =
                                     [@ EXCEPT !.pc = "fetch",
                                               !.fromBlock = r.fromBlock,
                                               !.toBlock = r.toBlock]]
                       /\ UNCHANGED isScanningBlocks
     \/ Finish("scan")     \* no ScanState, or the height query throws
  /\ UNCHANGED <<chain, latest, scanState, isScanning, timers, startPc, stopPc,
                 transfers, conf, hook>>
  /\ UNCHANGED <<cbVars, svcVars, recVars>>

\* manualScan: ScanState.findOne, getLatestBlockNumber, the range
ManualScan ==
  /\ proc["manual"].pc = "idle"
  /\ scanState.exists
  /\ LET fromBlock == scanState.lastScannedBlock + 1
         toBlock == Min(latest, fromBlock + manualBatch)
     IN /\ fromBlock <= toBlock
        /\ proc' = [proc EXCEPT !["manual"] =
                      [IdleProc EXCEPT !.pc = "fetch",
                                       !.fromBlock = fromBlock,
                                       !.toBlock = toBlock]]
  /\ UNCHANGED <<chain, latest, scanState, isScanning, isScanningBlocks, timers, startPc,
                 stopPc, transfers, conf, hook>>
  /\ UNCHANGED <<cbVars, svcVars, recVars>>

\* rescanMissingBlocks(fromBlock, toBlock): one batch (the range is below 50
\* blocks); blocks that already hold a Transfer are left out of blocksToScan
RescanMissingBlocks ==
  /\ proc["rescan"].pc = "idle"
  /\ \E fromBlock \in 1..MaxBlock, toBlock \in 1..MaxBlock :
       LET existingBlocks == {t.blockNumber : t \in
                                {r \in transfers : r.blockNumber >= fromBlock
                                                   /\ r.blockNumber <= toBlock}}
           blocksToScan == {b \in fromBlock..toBlock : b \notin existingBlocks}
       IN /\ blocksToScan # {}
          /\ proc' = [proc EXCEPT !["rescan"] =
                        [IdleProc EXCEPT
                           !.pc = "fetch",
                           !.fromBlock = CHOOSE b \in blocksToScan :
                                           \A c \in blocksToScan : b <= c,
                           !.toBlock = CHOOSE b \in blocksToScan :
                                         \A c \in blocksToScan : b >= c]]
  /\ UNCHANGED <<chain, latest, scanState, isScanning, isScanningBlocks, timers, startPc,
                 stopPc, transfers, conf, hook>>
  /\ UNCHANGED <<cbVars, svcVars, recVars>>

\* the blocks of a rescan request that hold no Transfer yet
BlocksToScan(fromBlock, toBlock) ==
  {b \in fromBlock..toBlock : ~\E r \in transfers : r.blockNumber = b}

\* rescanMissingBlocks(fromBlock, toBlock) when every block of the range holds
\* a Transfer: blocksToScan is empty, the batch is skipped and the call returns
\* without an error; the record keeps the range that was asked for
RescanSkips ==
  /\ proc["rescan"].pc = "idle"
  /\ \E fromBlock \in 1..MaxBlock, toBlock \in 1..MaxBlock :
       /\ fromBlock <= toBlock
       /\ BlocksToScan(fromBlock, toBlock) = {}
       /\ proc' = [proc EXCEPT !["rescan"] =
                     [IdleProc EXCEPT !.fromBlock = fromBlock, !.toBlock = toBlock]]
  /\ UNCHANGED <<chain, latest, scanState, isScanning, isScanningBlocks, timers, startPc,
                 stopPc, transfers, conf, hook>>
  /\ UNCHANGED <<cbVars, svcVars, recVars>>

\* blockchainService.scanTransferEvents answers
Fetch(p) ==
  /\ proc[p].pc = "fetch"
  /\ LET events == scanTransferEvents(proc[p].fromBlock, proc[p].toBlock)
     IN proc' = [proc EXCEPT ![p] =
                   [@ EXCEPT !.events = events,
                             !.fromBlock = 0,
                             !.pc = IF events = <<>> THEN AfterSave(p) ELSE "filter"]]
  /\ UNCHANGED <<chain, latest, scanState, isScanning, isScanningBlocks, timers, startPc,
                 stopPc, transfers, conf, hook>>
  /\ UNCHANGED <<cbVars, svcVars, recVars>>

\* blockchainService.scanTransferEvents throws after its 3 attempts
FetchFails(p) ==
  /\ proc[p].pc = "fetch"
  /\ Finish(p)
  /\ caught' = IF p = "scan" THEN "scan" ELSE caught
  /\ UNCHANGED <<chain, latest, scanState, isScanning, timers, startPc,
                 stopPc, transfers, conf, hook>>
  /\ UNCHANGED <<withdrawals, wd, collect, fmt>>
  /\ UNCHANGED <<cbVars, recVars>>

\* filterTargetEvents; err records that a lookup of this run failed
Filter(p) ==
  /\ proc[p].pc = "filter"
  /\ \E subscribedOk \in BOOLEAN, walletsOk \in BOOLEAN :
       LET targetEvents == filterTargetEvents(proc[p].events, subscribedOk, walletsOk)
       IN proc' = [proc EXCEPT ![p] =
                     [@ EXCEPT !.events = targetEvents,
                               !.targets = IF p = "scan" THEN targetEvents ELSE <<>>,
                               !.err = ~(subscribedOk /\ walletsOk),
                               !.pc = IF targetEvents = <<>> THEN AfterSave(p)
                                      ELSE "find"]]
  /\ UNCHANGED <<chain, latest, scanState, isScanning, isScanningBlocks, timers, startPc,
                 stopPc, transfers, conf, hook>>
  /\ UNCHANGED <<cbVars, svcVars, recVars>>

\* the rest of the save loop after the head event is done
NextEvent(p, failed, existing) ==
  [proc[p] EXCEPT !.events = Tail(@),
                  !.err = @ \/ failed,
                  !.seen = @ \/ existing,
                  !.pc = IF Tail(proc[p].events) = <<>> THEN AfterSave(p) ELSE "find"]

\* saveTransferEvent: Transfer.findOne({transactionHash})
SaveFind(p) ==
  /\ proc[p].pc = "find"
  /\ LET event == Head(proc[p].events)
     IN IF \E r \in transfers : r.transactionHash = event.transactionHash
          THEN proc' = [proc EXCEPT ![p] = NextEvent(p, FALSE, TRUE)]
          ELSE proc' = [proc EXCEPT ![p] = [@ EXCEPT !.pc = "insert"]]
  /\ UNCHANGED <<chain, latest, scanState, isScanning, isScanningBlocks, timers, startPc,
                 stopPc, transfers, conf, hook>>
  /\ UNCHANGED <<cbVars, svcVars, recVars>>

\* saveTransferEvent: transfer.save() stores the new document, or the unique
\* index rejects it (caught, null)
SaveInsert(p) ==
  /\ proc[p].pc = "insert"
  /\ LET event == Head(proc[p].events)
     IN /\ transfers' = IF UniqueIndexAccepts(transfers, event.transactionHash)
                          THEN transfers \cup {NewTransfer(transfers, event)}
                          ELSE transfers
        /\ proc' = [proc EXCEPT ![p] =
                      NextEvent(p, FALSE,
                                ~UniqueIndexAccepts(transfers, event.transactionHash))]
  /\ UNCHANGED <<chain, latest, scanState, isScanning, isScanningBlocks, timers, startPc,
                 stopPc, conf, hook>>
  /\ UNCHANGED <<cbVars, svcVars, recVars>>

\* saveTransferEvent: the store throws, the catch returns null and the loop goes on
SaveFails(p) ==
  /\ proc[p].pc = "insert"
  /\ proc' = [proc EXCEPT ![p] = NextEvent(p, TRUE, FALSE)]
  /\ UNCHANGED <<chain, latest, scanState, isScanning, isScanningBlocks, timers, startPc,
                 stopPc, transfers, conf, hook>>
  /\ UNCHANGED <<cbVars, svcVars, recVars>>

\* the flag the cursor write carries
AdvanceFlag(p) == IF p = "scan" THEN TRUE ELSE isScanning

\* updateScanState(.., toBlock), then the handler ends
Advance(p) ==
  /\ proc[p].pc = "advance"
  /\ scanState' = updateScanState(AdvanceFlag(p), proc[p].toBlock)
  /\ IF p = "scan" /\ proc[p].targets # <<>>
       THEN /\ proc' = [proc EXCEPT ![p] = [@ EXCEPT !.pc = "balance", !.wrote = TRUE]]
            /\ UNCHANGED isScanningBlocks
       ELSE Finish(p)
  /\ UNCHANGED <<chain, latest, isScanning, timers, startPc, stopPc, transfers, conf, hook>>
  /\ UNCHANGED <<cbVars, svcVars, recVars>>

\* updateScanState throws
AdvanceFails(p) ==
  /\ proc[p].pc = "advance"
  /\ Finish(p)
  /\ caught' = IF p = "scan" THEN "scan" ELSE caught
  /\ UNCHANGED <<chain, latest, scanState, isScanning, timers, startPc, stopPc,
                 transfers, conf, hook>>
  /\ UNCHANGED <<withdrawals, wd, collect, fmt>>
  /\ UNCHANGED <<cbVars, recVars>>

(***************************************************************************)
(* scanTransferEvents by chunks, under the scanNewBlocks that asks for up   *)
(* to 201 blocks                                                            *)
(***************************************************************************)
wideBatch == 200           \* toBlock = min(latest - confirmations, fromBlock + 200)
maxBlocksPerQuery == 200   \* a range of more blocks is fetched in chunks
logRetries == 3            \* getPastLogsWithRetry(web3, params, maxRetries = 3)
WideHeights == {150, 207, 300}

\* the chunks of scanTransferEventsInChunks, or the one query of a small range
RECURSIVE Chunks(_, _, _)
Chunks(start, toBlock, chunkSize) ==
  IF start > toBlock THEN <<>>
  ELSE <<[from |-> start, to |-> Min(start + chunkSize - 1, toBlock)]>>
         \o Chunks(start + chunkSize, toBlock, chunkSize)

\* scanNewBlocks: ScanState.findOne, getLatestBlockNumber, the range, and
\* scanTransferEvents up to its first query
ScanReadWide ==
  /\ proc["scan"].pc = "state"
  /\ \/ /\ scanState.exists
        /\ LET r == scanRange(scanState.lastScannedBlock, latest, wideBatch)
               blockRange == r.toBlock - r.fromBlock + 1
           IN IF r.fromBlock > r.toBlock
                THEN Finish("scan") /\ UNCHANGED fetch
                ELSE /\ proc' = [proc EXCEPT !["scan"] =
                                   [@ EXCEPT !.pc = "logs", !.fromBlock = r.fromBlock,
                                             !.toBlock = r.toBlock]]
                     /\ fetch' = [IdleFetch EXCEPT
                                   !.chunked = blockRange > maxBlocksPerQuery,
                                   !.chunks = IF blockRange <= maxBlocksPerQuery
                                                THEN <<[from |-> r.fromBlock, to |-> r.toBlock]>>
                                                ELSE Chunks(r.fromBlock, r.toBlock,
                                                            maxBlocksPerQuery),
                                   !.attempt = 1]
                     /\ UNCHANGED isScanningBlocks
     \/ Finish("scan") /\ UNCHANGED fetch    \* no ScanState, or the height query throws
  /\ UNCHANGED <<chain, latest, scanState, isScanning, timers, startPc, stopPc,
                 transfers, conf, hook>>
  /\ UNCHANGED <<cbVars, svcVars, wallets, crashedAt, answered, registry, cache, attr, pend, coll>>

\* what the catch of a chunk does with the error of its last attempt:
\* return [] and go on
SwallowsChunk(chunked) == chunked

\* one attempt of getPastLogsWithRetry for the first chunk left, and what
\* follows its answer
ChunkAttempt ==
  /\ proc["scan"].pc = "logs"
  /\ \E answered200 \in BOOLEAN :
       LET chunk == Head(fetch.chunks)
           rest == Tail(fetch.chunks)
           logs == IF answered200 THEN scanTransferEvents(chunk.from, chunk.to) ELSE <<>>
           allEvents == fetch.events \o logs
           goOn(f) ==
             IF rest # <<>>
               THEN /\ fetch' = [f EXCEPT !.chunks = rest, !.attempt = 1,
                                          !.events = allEvents]
                    /\ UNCHANGED <<proc, isScanningBlocks, caught>>
               ELSE /\ fetch' = [f EXCEPT !.chunks = <<>>, !.attempt = 0,
                                          !.events = allEvents]
                    /\ proc' = [proc EXCEPT !["scan"] =
                                  [@ EXCEPT !.events = allEvents,
                                            !.fromBlock = 0,
                                            !.pc = IF allEvents = <<>> THEN AfterSave("scan")
                                                   ELSE "filter"]]
                    /\ UNCHANGED <<isScanningBlocks, caught>>
       IN IF answered200 THEN goOn(fetch)
          ELSE IF fetch.attempt < logRetries
            THEN /\ fetch' = [fetch EXCEPT !.attempt = @ + 1]
                 /\ UNCHANGED <<proc, isScanningBlocks, caught>>
          ELSE IF SwallowsChunk(fetch.chunked)
            THEN goOn([fetch EXCEPT !.abandoned = @ \cup {chunk}])
          ELSE /\ fetch' = [fetch EXCEPT !.abandoned = @ \cup {chunk}, !.attempt = 0]
               /\ Finish("scan")
               /\ caught' = "scan"
  /\ UNCHANGED <<chain, latest, scanState, isScanning, timers, startPc, stopPc,
                 transfers, conf, hook>>
  /\ UNCHANGED <<withdrawals, wd, collect, fmt>>
  /\ UNCHANGED <<cbVars, wallets, crashedAt, answered, registry, cache, attr, pend, coll>>

(***************************************************************************)
(* updateUserWalletBalances, the last step of a scan cycle                  *)
(***************************************************************************)
\* the loop goes on to the next event, or the cycle ends
BalanceNext ==
  IF Tail(proc["scan"].targets) = <<>>
    THEN Finish("scan")
    ELSE /\ proc' = [proc EXCEPT !["scan"] =
                       [@ EXCEPT !.targets = Tail(@), !.pc = "balance",
                                 !.balance = 0, !.existing = 0]]
         /\ UNCHANGED isScanningBlocks

\* getTransferByHash(transactionHash): the Transfer of the hash, or none
getTransferByHash(hash) == {r \in transfers : r.transactionHash = hash}

\* getUserWalletByAddress (null for no active wallet and for a failed lookup),
\* getTransferByHash and the test of walletBalanceUpdated
BalanceRead ==
  /\ proc["scan"].pc = "balance"
  /\ LET event == Head(proc["scan"].targets)
         existingTransfer == getTransferByHash(event.transactionHash)
     IN \E found \in BOOLEAN :
          IF ~(found /\ event.toAddress \in ActiveWallets)
               \/ \E r \in existingTransfer : r.walletBalanceUpdated
            THEN BalanceNext
            ELSE /\ proc' = [proc EXCEPT !["scan"] =
                               [@ EXCEPT !.pc = "credit",
                                         !.balance = wallets[event.toAddress].balance,
                                         !.existing =
                                           IF existingTransfer = {} THEN 0
                                           ELSE (CHOOSE r \in existingTransfer : TRUE).id]]
                 /\ UNCHANGED isScanningBlocks
  /\ UNCHANGED <<chain, latest, scanState, isScanning, timers, startPc, stopPc,
                 transfers, conf, hook>>
  /\ UNCHANGED <<cbVars, svcVars, recVars>>

\* updateWalletBalance(address, currentBalance + amount, amount): the wallet is
\* saved and true comes back, or the store fails and false comes back
BalanceCredit ==
  /\ proc["scan"].pc = "credit"
  /\ LET event == Head(proc["scan"].targets)
     IN \E updateSuccess \in BOOLEAN :
          /\ wallets' = IF updateSuccess
                          THEN [wallets EXCEPT ![event.toAddress] =
                                  [balance |-> proc["scan"].balance + event.amount,
                                   totalReceived |-> @.totalReceived + event.amount]]
                          ELSE wallets
          /\ IF updateSuccess /\ proc["scan"].existing # 0
               THEN /\ proc' = [proc EXCEPT !["scan"] = [@ EXCEPT !.pc = "mark"]]
                    /\ UNCHANGED isScanningBlocks
               ELSE BalanceNext
  /\ UNCHANGED <<chain, latest, scanState, isScanning, timers, startPc, stopPc,
                 transfers, conf, hook>>
  /\ UNCHANGED <<cbVars, svcVars, crashedAt, answered, auxVars>>

\* markWalletBalanceUpdated(existingTransfer._id)
BalanceMark ==
  /\ proc["scan"].pc = "mark"
  /\ transfers' = {IF r.id = proc["scan"].existing
                     THEN [r EXCEPT !.walletBalanceUpdated = TRUE] ELSE r
                     : r \in transfers}
  /\ BalanceNext
  /\ UNCHANGED <<chain, latest, scanState, isScanning, timers, startPc, stopPc,
                 conf, hook>>
  /\ UNCHANGED <<cbVars, svcVars, recVars>>

\* getTransferByHash or markWalletBalanceUpdated throws:
\* updateUserWalletBalances catches and the cycle ends
BalanceFails ==
  /\ proc["scan"].pc \in {"balance", "mark"}
  /\ Finish("scan")
  /\ UNCHANGED <<chain, latest, scanState, isScanning, timers, startPc, stopPc,
                 transfers, conf, hook>>
  /\ UNCHANGED <<cbVars, svcVars, recVars>>

Balance == BalanceRead \/ BalanceCredit \/ BalanceMark \/ BalanceFails

(***************************************************************************)
(* Confirmation loop                                                       *)
(***************************************************************************)
\* rows of a set as a sequence in id order
RECURSIVE ById(_)
ById(S) ==
  IF S = {} THEN <<>>
  ELSE LET r == CHOOSE x \in S : \A y \in S : x.id <= y.id
       IN <<r>> \o ById(S \ {r})

\* rows of a set as a sequence in blockNumber order (ties by id)
ByBlock(S) ==
  LET before(x, y) == \/ x.blockNumber < y.blockNumber
                      \/ x.blockNumber = y.blockNumber /\ x.id < y.id
      rank(r) == Cardinality({y \in S : before(y, r)}) + 1
  IN [i \in 1..Cardinality(S) |-> CHOOSE r \in S : rank(r) = i]

\* an updateConfirmationStatus that asks for one confirmation more
ConfirmedLate(doc, currentBlockNumber) ==
  LET confirmationCount == currentBlockNumber - doc.blockNumber
  IN [doc EXCEPT !.confirmationCount = Max(0, confirmationCount),
                 !.status = IF confirmationCount > confirmationBlocks
                              THEN "confirmed" ELSE @]

\* what updateConfirmationStatus assigns to a loaded document
Confirmed(doc, currentBlockNumber) ==
  LET confirmationCount == currentBlockNumber - doc.blockNumber
  IN [doc EXCEPT !.confirmationCount = Max(0, confirmationCount),
                 !.status = IF confirmationCount >= confirmationBlocks
                              THEN "confirmed" ELSE @]

\* a save that writes the whole loaded document back
SaveWholeDocument(row, loaded, changed) ==
  [row EXCEPT !.confirmationCount = changed.confirmationCount,
              !.status = changed.status]

\* transfer.save(): the update sets the paths whose value was changed on the
\* loaded document, and only those
SaveModified(row, loaded, changed) ==
  [row EXCEPT !.confirmationCount =
                 IF changed.confirmationCount # loaded.confirmationCount
                   THEN changed.confirmationCount ELSE @,
              !.status =
                 IF changed.status # loaded.status THEN changed.status ELSE @]

\* a tick of the confirmation loop: getLatestBlockNumber, Transfer.find({pending})
ConfirmationTick(k) ==
  /\ timers.confirmation
  /\ isScanning
  /\ conf[k].pc = "idle"
  /\ LET docs == ById({r \in transfers : r.status = "pending"})
     IN /\ docs # <<>>
        /\ conf' = [conf EXCEPT ![k] =
                      [pc |-> "save", latestBlock |-> latest, docs |-> docs,
                       saved |-> FALSE]]
  /\ UNCHANGED <<chain, latest, scanState, isScanning, isScanningBlocks, timers, startPc,
                 stopPc, proc, transfers, hook>>
  /\ UNCHANGED <<cbVars, svcVars, recVars>>

\* one turn of the loop of updateConfirmationStatus: assign and save
ConfirmationSave(k) ==
  /\ conf[k].pc = "save"
  /\ LET loaded == Head(conf[k].docs)
         changed == Confirmed(loaded, conf[k].latestBlock)
     IN transfers' = {IF r.id = loaded.id THEN SaveModified(r, loaded, changed) ELSE r
                        : r \in transfers}
  /\ conf' = [conf EXCEPT ![k] =
                IF Tail(conf[k].docs) = <<>> THEN [IdleConf EXCEPT !.saved = TRUE]
                ELSE [@ EXCEPT !.docs = Tail(@), !.saved = TRUE]]
  /\ UNCHANGED <<chain, latest, scanState, isScanning, isScanningBlocks, timers, startPc,
                 stopPc, proc, hook>>
  /\ UNCHANGED <<cbVars, svcVars, recVars>>

\* a save throws: updateConfirmationStatus catches and returns 0
ConfirmationFails(k) ==
  /\ conf[k].pc = "save"
  /\ conf' = [conf EXCEPT ![k] = IdleConf]
  /\ caught' = "confirmation"
  /\ UNCHANGED <<chain, latest, scanState, isScanning, isScanningBlocks, timers, startPc,
                 stopPc, proc, transfers, hook>>
  /\ UNCHANGED <<withdrawals, wd, collect, fmt>>
  /\ UNCHANGED <<cbVars, recVars>>

(***************************************************************************)
(* Callback-eligibility (webhook) loop                                     *)
(***************************************************************************)
webhookBatch == 50

\* getTransfersForWebhook(limit)
getTransfersForWebhook(limit) ==
  LET all == ByBlock({r \in transfers : r.status = "confirmed" /\ ~r.webhookSent})
  IN SubSeq(all, 1, Min(limit, Len(all)))

\* a tick of the webhook loop
WebhookTick ==
  /\ timers.webhook
  /\ isScanning
  /\ hook.pc = "idle"
  /\ LET docs == getTransfersForWebhook(webhookBatch)
     IN /\ docs # <<>>
        /\ hook' = [pc |-> "send", docs |-> docs, successfulIds |-> {}]
  /\ UNCHANGED <<chain, latest, scanState, isScanning, isScanningBlocks, timers, startPc,
                 stopPc, proc, transfers, conf>>
  /\ UNCHANGED <<cbVars, svcVars, recVars>>

\* the loop takes every Transfer it called sendDepositCallback for as sent
SuccessOfAnyCall(userWallet, delivered) == userWallet

\* let success = false; if (userWallet) success = await sendDepositCallback(...)
Success(userWallet, delivered) == userWallet /\ delivered

\* one turn of the loop: a deposit callback for a wallet address, nothing for
\* an address that is only subscribed
WebhookSend ==
  /\ hook.pc = "send"
  /\ LET transfer == Head(hook.docs)
         userWallet == transfer.toAddress \in ActiveWallets
     IN \E delivered \in BOOLEAN :
          LET success == Success(userWallet, delivered)
              ids == IF success THEN hook.successfulIds \cup {transfer.id}
                     ELSE hook.successfulIds
          IN /\ hook' = IF Tail(hook.docs) # <<>>
                          THEN [hook EXCEPT !.docs = Tail(@), !.successfulIds = ids]
                        ELSE IF ids # {}
                          THEN [pc |-> "mark", docs |-> <<>>, successfulIds |-> ids]
                        ELSE IdleHook
             /\ answered' = IF ~userWallet THEN answered
                            ELSE IF delivered
                              THEN [answered EXCEPT !.ok = @ \cup {transfer.id}]
                            ELSE [answered EXCEPT !.failed = @ \cup {transfer.id}]
  /\ UNCHANGED <<chain, latest, scanState, isScanning, isScanningBlocks, timers, startPc,
                 stopPc, proc, transfers, conf>>
  /\ UNCHANGED <<cbVars, svcVars, wallets, crashedAt, auxVars>>

\* markWebhookSent(successfulIds)
WebhookMark ==
  /\ hook.pc = "mark"
  /\ transfers' = {IF r.id \in hook.successfulIds THEN [r EXCEPT !.webhookSent = TRUE]
                   ELSE r : r \in transfers}
  /\ hook' = IdleHook
  /\ UNCHANGED <<chain, latest, scanState, isScanning, isScanningBlocks, timers, startPc,
                 stopPc, proc, conf>>
  /\ UNCHANGED <<cbVars, svcVars, recVars>>

\* getUserWalletByAddress or markWebhookSent throws: processWebhooks catches
WebhookFails ==
  /\ hook.pc \in {"send", "mark"}
  /\ hook' = IdleHook
  /\ caught' = "webhook"
  /\ UNCHANGED <<chain, latest, scanState, isScanning, isScanningBlocks, timers, startPc,
                 stopPc, proc, transfers, conf>>
  /\ UNCHANGED <<withdrawals, wd, collect, fmt>>
  /\ UNCHANGED <<cbVars, recVars>>

(***************************************************************************)
(* Callback delivery: immediate attempts, the retry queue, the sweeper      *)
(***************************************************************************)
\* what a POST to the receiver can answer: 2xx, another status below 500, or
\* an error (network, timeout, 5xx)
Answers == IF receiver = "up" THEN {"2xx"} ELSE {"2xx", "non2xx", "error"}

\* the receiver answers 2xx from now on
ReceiverSettles ==
  /\ receiver = "flaky"
  /\ receiver' = "up"
  /\ UNCHANGED <<callbacks, call, sweep>>
  /\ UNCHANGED <<scanVars, svcVars, recVars>>

\* 30 seconds pass: every scheduled retry comes one unit nearer
TimePasses ==
  /\ \E r \in callbacks : r.status = "pending" /\ r.nextRetryIn > -MaxOverdue
  /\ callbacks' = {IF r.status = "pending" /\ r.nextRetryIn > -MaxOverdue
                     THEN [r EXCEPT !.nextRetryIn = @ - 1] ELSE r : r \in callbacks}
  /\ UNCHANGED <<receiver, call, sweep>>
  /\ UNCHANGED <<scanVars, svcVars, recVars>>

(* immediate delivery: sendWithdrawalCallback / sendDepositCallback *)

\* a settlement or scan component calls send...Callback for a key
SendCallback(c, key, cap) ==
  /\ call[c].pc = "idle"
  /\ Cardinality(callbacks) + Cardinality({d \in Callers : call[d].pc # "idle"})
       < cap
  /\ call' = [call EXCEPT ![c] =
                [pc |-> "post", key |-> key, attempt |-> 1, result |-> "none"]]
  /\ UNCHANGED <<receiver, callbacks, sweep>>
  /\ UNCHANGED <<scanVars, svcVars, recVars>>

\* a returned delivery keeps what became of it: delivered, exhausted (false
\* without a call of addPendingCallback), existing or enqueued
Returned(result) == [IdleCall EXCEPT !.result = result]

\* one attempt of the for loop and what follows its answer
Post(c) ==
  /\ call[c].pc = "post"
  /\ \E answer \in Answers :
       call' = [call EXCEPT ![c] =
         IF answer = "2xx"
           THEN Returned("delivered")
         ELSE IF answer = "non2xx"
           THEN IF call[c].attempt < webhookMaxRetries
                  THEN [call[c] EXCEPT !.attempt = @ + 1]
                  ELSE Returned("exhausted")
         ELSE IF call[c].attempt = webhookMaxRetries
           THEN IF call[c].key[1] = "withdrawal"
                  THEN [call[c] EXCEPT !.pc = "find"]
                  ELSE Returned("exhausted")
         ELSE [call[c] EXCEPT !.attempt = @ + 1]]
  /\ UNCHANGED <<receiver, callbacks, sweep>>
  /\ UNCHANGED <<scanVars, svcVars, recVars>>

\* addPendingCallback without its query
NoPendingCheck(rows, key) == FALSE

\* the query of addPendingCallback: a pending row with the same key
ExistingPending(rows, key) ==
  \E r \in rows : r.key = key /\ r.status = "pending"

\* the index on {type, relatedId, transferStatus} is not unique: save() accepts
\* a second row of a key
CallbackIndexAccepts(rows, key) == TRUE

\* new PendingCallback({...retryCount: 0, nextRetryAt: now + 30s, status: pending});
\* attempts and acked are history fields: the sweeper deliveries made for the
\* row, and whether the receiver answered one of them with 2xx
NewCallback(rows, key) ==
  [id |-> Cardinality(rows) + 1,
   key |-> key,
   status |-> "pending",
   retryCount |-> 0,
   nextRetryIn |-> retryDelay,
   lastError |-> "",
   attempts |-> 0,
   acked |-> FALSE]

\* addPendingCallback: PendingCallback.findOne
EnqueueFind(c) ==
  /\ call[c].pc = "find"
  /\ call' = [call EXCEPT ![c] =
                IF ExistingPending(callbacks, call[c].key)
                  THEN Returned("existing")
                  ELSE [call[c] EXCEPT !.pc = "insert"]]
  /\ UNCHANGED <<receiver, callbacks, sweep>>
  /\ UNCHANGED <<scanVars, svcVars, recVars>>

\* addPendingCallback: pendingCallback.save()
EnqueueSave(c) ==
  /\ call[c].pc = "insert"
  /\ callbacks' = IF CallbackIndexAccepts(callbacks, call[c].key)
                    THEN callbacks \cup {NewCallback(callbacks, call[c].key)}
                    ELSE callbacks
  /\ call' = [call EXCEPT ![c] = Returned("enqueued")]
  /\ UNCHANGED <<receiver, sweep>>
  /\ UNCHANGED <<scanVars, svcVars, recVars>>

(* the sweeper: processPendingCallbacks / retryCallback *)

\* $match: pending and due
Due(rows) == {r \in rows : r.status = "pending" /\ r.nextRetryIn <= 0}

\* the aggregation without its $group stage
EveryDueRow(rows) == Due(rows)

\* $sort {nextRetryAt, createdAt}, $group by key with $first
FirstOfGroups(rows) ==
  {r \in Due(rows) :
     \A q \in Due(rows) :
       q.key = r.key =>
         \/ r.nextRetryIn < q.nextRetryIn
         \/ r.nextRetryIn = q.nextRetryIn /\ r.id <= q.id}

\* the sequences that hold each element of a set once
RECURSIVE Orders(_)
Orders(S) ==
  IF S = {} THEN {<<>>}
  ELSE UNION {{<<x>> \o t : t \in Orders(S \ {x})} : x \in S}

\* the sets that a set becomes when k of its elements are left out
RECURSIVE Without(_, _)
Without(S, k) ==
  IF k = 0 THEN {S} ELSE UNION {Without(S \ {x}, k - 1) : x \in S}

\* ids in the order of creation
RECURSIVE Ascending(_)
Ascending(S) ==
  IF S = {} THEN <<>>
  ELSE LET x == CHOOSE y \in S : \A z \in S : y <= z IN <<x>> \o Ascending(S \ {x})

MaxShuffled == 3   \* a batch of up to this many rows is taken in every order

\* the aggregation: at most sweepLimit groups, in the order the store yields
\* them; a batch of more than MaxShuffled rows is taken in the order of creation
Batches(rows) ==
  LET firsts == {r.id : r \in FirstOfGroups(rows)}
      n == Min(sweepLimit, Cardinality(firsts))
  IN UNION {IF n <= MaxShuffled THEN Orders(chosen) ELSE {Ascending(chosen)}
              : chosen \in Without(firsts, Cardinality(firsts) - n)}

\* the loop of processPendingCallbacks goes to the next row, or the pass ends
NextRow(s) ==
  IF Tail(sweep[s].batch) = <<>> THEN IdleSweep
  ELSE [IdleSweep EXCEPT !.pc = "load", !.batch = Tail(sweep[s].batch)]

\* a tick of the 30-second interval: the aggregation
SweepTick(s) ==
  /\ timers.sweeper
  /\ sweep[s].pc = "idle"
  /\ Due(callbacks) # {}
  /\ \E batch \in Batches(callbacks) :
       sweep' = [sweep EXCEPT ![s] = [IdleSweep EXCEPT !.pc = "load", !.batch = batch]]
  /\ UNCHANGED <<receiver, callbacks, call>>
  /\ UNCHANGED <<scanVars, svcVars, recVars>>

\* the document findById returns, with the fields retryCallback reads: the
\* status is pending whenever retryCallback is called
Loaded(row) == [id |-> row.id, key |-> row.key, retryCount |-> row.retryCount]

\* PendingCallback.findById and the status check
SweepLoad(s) ==
  /\ sweep[s].pc = "load"
  /\ LET row == CHOOSE r \in callbacks : r.id = Head(sweep[s].batch)
     IN sweep' = [sweep EXCEPT ![s] =
                    IF row.status = "pending"
                      THEN [@ EXCEPT !.pc = "send", !.doc = Loaded(row)]
                      ELSE NextRow(s)]
  /\ UNCHANGED <<receiver, callbacks, call>>
  /\ UNCHANGED <<scanVars, svcVars, recVars>>

\* retryCallback: send...WebhookDirect
SweepSend(s) ==
  /\ sweep[s].pc = "send"
  /\ \E answer \in Answers :
       /\ sweep' = [sweep EXCEPT ![s] = [@ EXCEPT !.pc = "save",
                                                  !.success = (answer = "2xx")]]
       /\ callbacks' = {IF r.id = sweep[s].doc.id
                          THEN [r EXCEPT !.attempts = @ + 1,
                                         !.acked = @ \/ answer = "2xx"]
                          ELSE r : r \in callbacks}
  /\ UNCHANGED <<receiver, call>>
  /\ UNCHANGED <<scanVars, svcVars, recVars>>

\* a retryCallback that takes every answer for a failure
RetriedAsFailure(doc, success) ==
  [status |-> IF doc.retryCount + 1 >= callbackMaxRetries THEN "failed" ELSE "pending",
   retryCount |-> doc.retryCount + 1,
   nextRetryIn |-> retryDelay]

\* the fields of the loaded document after retryCallback's assignments;
\* nextRetryAt counts only where it is assigned
Retried(doc, success) ==
  [status |-> IF success THEN "completed"
              ELSE IF doc.retryCount + 1 >= callbackMaxRetries THEN "failed"
              ELSE "pending",
   retryCount |-> IF success THEN doc.retryCount ELSE doc.retryCount + 1,
   nextRetryIn |-> retryDelay]

\* the paths retryCallback assigns: status on a success; retryCount and then
\* status or nextRetryAt on a failure
Assigned(doc, success) ==
  IF success THEN {"status"}
  ELSE IF doc.retryCount + 1 >= callbackMaxRetries THEN {"retryCount", "status"}
  ELSE {"retryCount", "nextRetryAt"}

\* callback.save(): the update sets the assigned paths and no other
SaveCallback(row, changed, paths) ==
  [row EXCEPT !.status = IF "status" \in paths THEN changed.status ELSE @,
              !.retryCount = IF "retryCount" \in paths THEN changed.retryCount ELSE @,
              !.nextRetryIn = IF "nextRetryAt" \in paths THEN changed.nextRetryIn ELSE @]

\* retryCallback: callback.save()
SweepSave(s) ==
  /\ sweep[s].pc = "save"
  /\ LET loaded == sweep[s].doc
         changed == Retried(loaded, sweep[s].success)
         paths == Assigned(loaded, sweep[s].success)
     IN callbacks' = {IF r.id = loaded.id THEN SaveCallback(r, changed, paths) ELSE r
                        : r \in callbacks}
  /\ sweep' = [sweep EXCEPT ![s] =
                 IF sweep[s].success THEN [@ EXCEPT !.pc = "siblings"] ELSE NextRow(s)]
  /\ UNCHANGED <<receiver, call>>
  /\ UNCHANGED <<scanVars, svcVars, recVars>>

\* an updateMany that matches the delivered row alone
OnlyItself(doc, r) == r.key = doc.key /\ r.status = "pending" /\ r.id = doc.id

\* the filter of the updateMany after a success
Sibling(doc, r) == r.key = doc.key /\ r.status = "pending" /\ r.id # doc.id

\* retryCallback: PendingCallback.updateMany on the rows of the same key
SweepSiblings(s) ==
  /\ sweep[s].pc = "siblings"
  /\ callbacks' = {IF Sibling(sweep[s].doc, r)
                     THEN [r EXCEPT !.status = "completed", !.lastError = "absorbed"]
                     ELSE r : r \in callbacks}
  /\ sweep' = [sweep EXCEPT ![s] = NextRow(s)]
  /\ UNCHANGED <<receiver, call>>
  /\ UNCHANGED <<scanVars, svcVars, recVars>>

\* PendingCallback.findById throws: processPendingCallbacks catches and the
\* pass ends
SweepFails(s) ==
  /\ sweep[s].pc = "load"
  /\ sweep' = [sweep EXCEPT ![s] = IdleSweep]
  /\ caught' = "sweeper"
  /\ UNCHANGED <<receiver, callbacks, call>>
  /\ UNCHANGED <<withdrawals, wd, collect, fmt>>
  /\ UNCHANGED <<scanVars, recVars>>

(***************************************************************************)
(* CollectionService: the settlement sweeper                                *)
(***************************************************************************)
\* the lock is released by the finally block of processCollections
CollectEndsLocked == [pc |-> "idle", isProcessing |-> TRUE]

CollectEnds == [pc |-> "idle", isProcessing |-> FALSE]

\* a tick of the interval of startAutoCollection: processCollections takes
\* the lock; a tick during a pass is skipped
CollectTick ==
  /\ timers.collection
  /\ ~collect.isProcessing
  /\ collect' = [pc |-> "query", isProcessing |-> TRUE]
  /\ UNCHANGED <<withdrawals, wd, caught, fmt>>
  /\ UNCHANGED <<scanVars, cbVars, recVars>>

\* getWalletsForCollection answers: no wallet, or wallets to collect
CollectQuery ==
  /\ collect.pc = "query"
  /\ \E walletsToCollect \in BOOLEAN :
       collect' = IF walletsToCollect THEN [collect EXCEPT !.pc = "funds"] ELSE CollectEnds
  /\ UNCHANGED <<withdrawals, wd, caught, fmt>>
  /\ UNCHANGED <<scanVars, cbVars, recVars>>

\* getWalletsForCollection throws: processCollections catches
CollectFails ==
  /\ collect.pc = "query"
  /\ collect' = CollectEnds
  /\ caught' = "collection"
  /\ UNCHANGED <<withdrawals, wd, fmt>>
  /\ UNCHANGED <<scanVars, cbVars, recVars>>

\* the loop over the wallets: collectWalletFunds succeeds or its error is
\* caught for that wallet; the pass ends
CollectFunds ==
  /\ collect.pc = "funds"
  /\ collect' = CollectEnds
  /\ UNCHANGED <<withdrawals, wd, caught, fmt>>
  /\ UNCHANGED <<scanVars, cbVars, recVars>>

(***************************************************************************)
(* CollectionService: a pass wallet by wallet                               *)
(***************************************************************************)
collectionThreshold == 5   \* config.collection.threshold
MaxAttempts == 4           \* collection attempts that a behaviour may hold

\* WalletService.getWalletsForCollection(threshold): the active wallets whose
\* balance is at least the threshold
getWalletsForCollection(threshold) ==
  {a \in ActiveWallets : wallets[a].balance >= threshold}

\* the loop over walletsToCollect is over and the finally block has run
WalletDone == [coll EXCEPT !.pc = "idle", !.address = "none", !.amount = 0]

\* getWalletsForCollection answers: no wallet and the pass ends, or the
\* wallets to collect with the balance each had at the query
CollectWallets ==
  /\ collect.pc = "query"
  /\ coll.pc = "idle"
  /\ LET walletsToCollect == getWalletsForCollection(collectionThreshold)
     IN IF walletsToCollect = {}
          THEN /\ collect' = CollectEnds
               /\ coll' = coll
          ELSE \E wallet \in walletsToCollect :
                 /\ collect' = [collect EXCEPT !.pc = "funds"]
                 /\ coll' = [coll EXCEPT !.pc = "record", !.address = wallet,
                                         !.amount = wallets[wallet].balance]
  /\ UNCHANGED <<registry, cache, attr, fetch, pend>>
  /\ UNCHANGED <<withdrawals, wd, caught, fmt>>
  /\ UNCHANGED <<scanVars, cbVars, wallets, crashedAt, answered>>

\* collectWalletFunds: a new CollectionRecord (pending, retryCount 0) is saved
\* and executeCollectionTransaction saves it as processing; a save that throws
\* is caught by the loop of processCollections
CollectWalletFunds ==
  /\ coll.pc = "record"
  /\ coll.attempts < MaxAttempts
  /\ \/ /\ coll' = [coll EXCEPT !.pc = "gas", !.attempts = @ + 1]
        /\ UNCHANGED collect
     \/ /\ coll' = WalletDone
        /\ collect' = CollectEnds
  /\ UNCHANGED <<registry, cache, attr, fetch, pend>>
  /\ UNCHANGED <<withdrawals, wd, caught, fmt>>
  /\ UNCHANGED <<scanVars, cbVars, wallets, crashedAt, answered>>

\* transferBNBForGas from the gas wallet to the wallet: the transfer is mined,
\* or it throws, the record is saved as failed with retryCount 1 and the
\* loop catches
TransferBNBForGas ==
  /\ coll.pc = "gas"
  /\ \/ /\ coll' = [coll EXCEPT !.pc = "usdt", !.gas = @ + 1]
        /\ UNCHANGED collect
     \/ /\ coll' = WalletDone
        /\ collect' = CollectEnds
  /\ UNCHANGED <<registry, cache, attr, fetch, pend>>
  /\ UNCHANGED <<withdrawals, wd, caught, fmt>>
  /\ UNCHANGED <<scanVars, cbVars, wallets, crashedAt, answered>>

\* transferUSDT of collectionRecord.amount, the balance read at the query:
\* mined and the record is saved as completed, or it throws, the record is
\* saved as failed with retryCount 1 and the loop catches
TransferUSDT ==
  /\ coll.pc = "usdt"
  /\ \/ /\ coll' = [coll EXCEPT !.pc = "reset", !.succeeded = @ + 1,
                                 !.collected = @ + coll.amount]
        /\ UNCHANGED collect
     \/ /\ coll' = WalletDone
        /\ collect' = CollectEnds
  /\ UNCHANGED <<registry, cache, attr, fetch, pend>>
  /\ UNCHANGED <<withdrawals, wd, caught, fmt>>
  /\ UNCHANGED <<scanVars, cbVars, wallets, crashedAt, answered>>

\* updateWalletBalance(fromAddress, '0'): balance is the only path the save
\* writes; false comes back when the store fails and nobody reads it
ResetBalance ==
  /\ coll.pc = "reset"
  /\ \E updated \in BOOLEAN :
       /\ wallets' = IF updated
                       THEN [wallets EXCEPT ![coll.address] = [@ EXCEPT !.balance = 0]]
                       ELSE wallets
       /\ coll' = [WalletDone EXCEPT !.resetRefused = @ \/ ~updated]
  /\ collect' = CollectEnds
  /\ UNCHANGED <<registry, cache, attr, fetch, pend>>
  /\ UNCHANGED <<withdrawals, wd, caught, fmt>>
  /\ UNCHANGED <<scanVars, cbVars, crashedAt, answered>>

(***************************************************************************)
(* WithdrawalService: createWithdrawal, processWithdrawal, retryWithdrawal  *)
(***************************************************************************)
MaxWithdrawals == 1    \* records the collection may hold
MaxBalance == 2        \* highest balance of the withdrawal wallet
Amounts == -1..2       \* amounts a request may name
maxManualRetries == 3

\* the request fails the checks that createWithdrawal makes before any await
InvalidAddressOnly(validAddress, amount) == ~validAddress

InvalidRequest(validAddress, amount) == ~validAddress \/ amount <= 0

\* the call returns what it returns and keeps its arguments
WdReturned(w, result) == [wd[w] EXCEPT !.pc = "idle", !.doc = NoRecord, !.result = result]

\* a client calls createWithdrawal(toAddress, amount, ...)
CreateWithdrawal(w) ==
  /\ wd[w].pc = "idle"
  /\ Cardinality(withdrawals) + Cardinality({v \in Wds : wd[v].kind = "create"
                                                        /\ wd[v].pc # "idle"})
       < MaxWithdrawals
  /\ \E validAddress \in BOOLEAN, amount \in Amounts :
       wd' = [wd EXCEPT ![w] = [IdleWd EXCEPT !.pc = "validate", !.kind = "create",
                                             !.validAddress = validAddress,
                                             !.amount = amount]]
  /\ UNCHANGED <<withdrawals, collect, caught, fmt>>
  /\ UNCHANGED <<scanVars, cbVars, recVars>>

\* isAddress(toAddress), BigInt(amount) <= 0
CreateValidate(w) ==
  /\ wd[w].pc = "validate"
  /\ wd' = [wd EXCEPT ![w] =
              IF InvalidRequest(wd[w].validAddress, wd[w].amount)
                THEN WdReturned(w, "rejected")
                ELSE [@ EXCEPT !.pc = "balance"]]
  /\ UNCHANGED <<withdrawals, collect, caught, fmt>>
  /\ UNCHANGED <<scanVars, cbVars, recVars>>

\* getWithdrawalWalletBalance answers (0 when the call fails) and is compared
CreateBalance(w) ==
  /\ wd[w].pc = "balance"
  /\ \E balance \in 0..MaxBalance :
       wd' = [wd EXCEPT ![w] =
                IF balance < wd[w].amount
                  THEN [WdReturned(w, "rejected") EXCEPT !.balance = balance]
                  ELSE [@ EXCEPT !.pc = "insert", !.balance = balance]]
  /\ UNCHANGED <<withdrawals, collect, caught, fmt>>
  /\ UNCHANGED <<scanVars, cbVars, recVars>>

\* new WithdrawalRecord({...status: PENDING, retryCount: 0})
NewWithdrawal(rows, amount) ==
  [id |-> Cardinality(rows) + 1, amount |-> amount, status |-> "pending",
   retryCount |-> 0, transactionHash |-> "none"]

\* withdrawalRecord.save() of the new record; processWithdrawal is entered
CreateSave(w) ==
  /\ wd[w].pc = "insert"
  /\ LET record == NewWithdrawal(withdrawals, wd[w].amount)
     IN /\ withdrawals' = withdrawals \cup {record}
        /\ wd' = [wd EXCEPT ![w] = [@ EXCEPT !.pc = "start", !.doc = record]]
  /\ UNCHANGED <<collect, caught, fmt>>
  /\ UNCHANGED <<scanVars, cbVars, recVars>>

\* a client calls retryWithdrawal(withdrawalId): findById and the two checks
RetryWithdrawal(w) ==
  /\ wd[w].pc = "idle"
  /\ \E id \in 1..MaxWithdrawals :
       LET found == {r \in withdrawals : r.id = id}
           called == [IdleWd EXCEPT !.kind = "retry"]
       IN wd' = [wd EXCEPT ![w] =
                   IF found = {} THEN [called EXCEPT !.result = "rejected"]
                   ELSE LET record == CHOOSE r \in found : TRUE
                        IN IF record.status # "failed"
                               \/ record.retryCount >= maxManualRetries
                             THEN [called EXCEPT !.result = "rejected"]
                             ELSE [called EXCEPT !.pc = "start", !.doc = record]]
  /\ UNCHANGED <<withdrawals, collect, caught, fmt>>
  /\ UNCHANGED <<scanVars, cbVars, recVars>>

\* withdrawalRecord.save(): the update sets the assigned paths
SaveWithdrawal(row, changed, paths) ==
  [row EXCEPT !.status = IF "status" \in paths THEN changed.status ELSE @,
              !.retryCount = IF "retryCount" \in paths THEN changed.retryCount ELSE @,
              !.transactionHash = IF "transactionHash" \in paths
                                    THEN changed.transactionHash ELSE @]

\* processWithdrawal: status = PROCESSING, save
ProcessStart(w) ==
  /\ wd[w].pc = "start"
  /\ LET changed == [wd[w].doc EXCEPT !.status = "processing"]
     IN /\ withdrawals' = {IF r.id = changed.id
                             THEN SaveWithdrawal(r, changed, {"status"}) ELSE r
                             : r \in withdrawals}
        /\ wd' = [wd EXCEPT ![w] = [@ EXCEPT !.pc = "transfer", !.doc = changed]]
  /\ UNCHANGED <<collect, caught, fmt>>
  /\ UNCHANGED <<scanVars, cbVars, recVars>>

\* transferUSDT answers with a transaction hash or throws; the try block or
\* the catch block assigns the document
ProcessTransfer(w) ==
  /\ wd[w].pc = "transfer"
  /\ \E sent \in BOOLEAN :
       wd' = [wd EXCEPT ![w] =
                [@ EXCEPT !.pc = "finish",
                          !.doc = IF sent
                                    THEN [@ EXCEPT !.transactionHash = "txHash",
                                                   !.status = "completed"]
                                    ELSE [@ EXCEPT !.status = "failed",
                                                   !.retryCount = @ + 1]]]
  /\ UNCHANGED <<withdrawals, collect, caught, fmt>>
  /\ UNCHANGED <<scanVars, cbVars, recVars>>

\* the save of the try block or of the catch block; the call returns
ProcessFinish(w) ==
  /\ wd[w].pc = "finish"
  /\ LET changed == wd[w].doc
         paths == IF changed.status = "completed" THEN {"transactionHash", "status"}
                  ELSE {"status", "retryCount"}
     IN withdrawals' = {IF r.id = changed.id THEN SaveWithdrawal(r, changed, paths)
                          ELSE r : r \in withdrawals}
  /\ wd' = [wd EXCEPT ![w] =
              WdReturned(w, IF wd[w].doc.status = "completed" THEN "done" ELSE "failed")]
  /\ UNCHANGED <<collect, caught, fmt>>
  /\ UNCHANGED <<scanVars, cbVars, recVars>>

(***************************************************************************)
(* WithdrawalService: the background pass over the pending records          *)
(***************************************************************************)
pendingLimit == 10          \* WithdrawalRecord.find({status: PENDING}).limit(10)
PendingCounts == {1, 2, 11} \* records a crash may have left pending

\* the records a crash left behind: saved by createWithdrawal, not yet processed
LeftPending(n) == {[NewWithdrawal({}, 1) EXCEPT !.id = i] : i \in 1..n}

\* a find without its limit
Unlimited(rows, n) == {rows}

\* find(...).limit(n): n of the rows, or all of them when they are fewer
Limited(rows, n) == Without(rows, Cardinality(rows) - Min(n, Cardinality(rows)))

\* the pass ends: finally { this.isProcessing = false }
PassEnds == [pend EXCEPT !.pc = "idle", !.isProcessing = FALSE, !.batch = <<>>,
                         !.inflight = @ - 1]

\* index.ts: withdrawalService.startWithdrawalProcessor() sets the interval
StartWithdrawalProcessor ==
  /\ ~pend.running
  /\ pend' = [pend EXCEPT !.running = TRUE]
  /\ UNCHANGED <<registry, cache, attr, fetch, coll>>
  /\ UNCHANGED <<scanVars, cbVars, svcVars, wallets, crashedAt, answered>>

\* a tick of the interval: the callback and processPendingWithdrawals both
\* test isProcessing; the lock is taken before the first await
PendTick ==
  /\ pend.running
  /\ ~pend.isProcessing
  /\ pend' = [pend EXCEPT !.pc = "find", !.isProcessing = TRUE, !.inflight = @ + 1,
                          !.given = 0]
  /\ UNCHANGED <<registry, cache, attr, fetch, coll>>
  /\ UNCHANGED <<scanVars, cbVars, svcVars, wallets, crashedAt, answered>>

\* WithdrawalRecord.find({status: PENDING}).limit(10)
PendFind ==
  /\ pend.pc = "find"
  /\ \E found \in Limited({r \in withdrawals : r.status = "pending"}, pendingLimit) :
       pend' = [pend EXCEPT !.pc = "row", !.batch = ById(found),
                            !.given = Cardinality(found)]
  /\ UNCHANGED <<registry, cache, attr, fetch, coll>>
  /\ UNCHANGED <<scanVars, cbVars, svcVars, wallets, crashedAt, answered>>

\* the find throws: the outer catch logs, the finally releases the lock
PendFindFails ==
  /\ pend.pc = "find"
  /\ pend' = PassEnds
  /\ caught' = "withdrawal"
  /\ UNCHANGED <<withdrawals, wd, collect, fmt>>
  /\ UNCHANGED <<registry, cache, attr, fetch, coll>>
  /\ UNCHANGED <<scanVars, cbVars, wallets, crashedAt, answered>>

\* the for loop: processWithdrawal(withdrawal) is entered for the next record
\* once the call before it has returned or thrown (and the sleep is over);
\* after the last record the pass ends
PendNext ==
  /\ pend.pc = "row"
  /\ wd[Processor].pc = "idle"
  /\ IF pend.batch = <<>>
       THEN pend' = PassEnds /\ UNCHANGED wd
       ELSE /\ pend' = [pend EXCEPT !.batch = Tail(@)]
            /\ wd' = [wd EXCEPT ![Processor] =
                        [IdleWd EXCEPT !.pc = "start", !.kind = "sweep",
                                       !.doc = Head(pend.batch)]]
  /\ UNCHANGED <<withdrawals, collect, caught, fmt>>
  /\ UNCHANGED <<registry, cache, attr, fetch, coll>>
  /\ UNCHANGED <<scanVars, cbVars, wallets, crashedAt, answered>>

PendingPass ==
  \/ PendTick \/ PendFind \/ PendFindFails \/ PendNext
  \/ ProcessStart(Processor) \/ ProcessTransfer(Processor) \/ ProcessFinish(Processor)

(***************************************************************************)
(* Amounts: formatUSDTAmount and the conversion of a display string to wei  *)
(***************************************************************************)
MaxDigits == 20      \* highest mantissa of a raw amount
MaxExp == 30         \* raw amounts run to 10^MaxExp
displayDecimals == 6 \* toFixed(6)
weiDecimals == 18    \* the unit 'ether' of fromWei and toWei

RECURSIVE Pow10(_)
Pow10(n) == IF n = 0 THEN 1 ELSE 10 * Pow10(n - 1)

\* the raw amounts from 0 to 10^MaxExp that have a mantissa up to MaxDigits
RawAmounts ==
  {a \in [digits : 0..MaxDigits, exp : 0..MaxExp] :
     \/ a.exp <= MaxExp - 2
     \/ a.exp = MaxExp - 1 /\ a.digits <= 10
     \/ a.exp = MaxExp /\ a.digits <= 1}

\* one amount in one form: no trailing zero in the mantissa, zero as 0 * 10^0
RECURSIVE Normal(_)
Normal(a) ==
  IF a.digits = 0 THEN NoAmount
  ELSE IF a.digits % 10 = 0 THEN Normal([digits |-> a.digits \div 10, exp |-> a.exp + 1])
  ELSE a

\* formatUSDTAmount: fromWei(weiAmount, 'ether'), parseFloat, toFixed(6). The
\* result is given in units of 10^-6, the last decimal of the string. An
\* amount of this set that is a multiple of 10^12 is a double within half a
\* unit and is printed as it is; a smaller part is rounded to the nearer unit,
\* and at half a unit the double nearest to the amount decides the side
formatUSDTAmount(weiAmount) ==
  LET drop == weiDecimals - displayDecimals
      cut == drop - weiAmount.exp    \* digits of the mantissa that are dropped
  IN IF cut <= 0 THEN {[digits |-> weiAmount.digits, exp |-> weiAmount.exp - drop]}
     ELSE IF cut > 3 THEN {NoAmount}
     ELSE LET unit == Pow10(cut)
              whole == weiAmount.digits \div unit
              rest == weiAmount.digits % unit
          IN IF 2 * rest < unit THEN {[digits |-> whole, exp |-> 0]}
             ELSE IF 2 * rest > unit THEN {[digits |-> whole + 1, exp |-> 0]}
             ELSE {[digits |-> whole, exp |-> 0], [digits |-> whole + 1, exp |-> 0]}

\* toWei(amount, 'ether') of a string with six decimals
toWei(display) ==
  [digits |-> display.digits, exp |-> display.exp + (weiDecimals - displayDecimals)]

\* a raw amount is formatted for display
Format ==
  /\ fmt.pc = "idle"
  /\ \E display \in formatUSDTAmount(fmt.amount) :
       fmt' = [fmt EXCEPT !.pc = "formatted", !.formatted = display]
  /\ UNCHANGED <<withdrawals, wd, collect, caught>>
  /\ UNCHANGED <<scanVars, cbVars, recVars>>

\* the display string is converted back to a raw amount
Restore ==
  /\ fmt.pc = "formatted"
  /\ fmt' = [fmt EXCEPT !.pc = "restored", !.back = toWei(fmt.formatted)]
  /\ UNCHANGED <<withdrawals, wd, collect, caught>>
  /\ UNCHANGED <<scanVars, cbVars, recVars>>

(***************************************************************************)
(* The process dies and is started again                                    *)
(***************************************************************************)
\* the process dies: what it held in memory is gone, the collections stay;
\* crashedAt keeps the step the scan cycle had reached
Crash ==
  /\ crashedAt = "none"
  /\ crashedAt' = proc["scan"].pc
  /\ isScanning' = FALSE
  /\ isScanningBlocks' = FALSE
  /\ timers' = [scan |-> FALSE, confirmation |-> FALSE, webhook |-> FALSE,
                sweeper |-> FALSE, collection |-> FALSE]
  /\ startPc' = "idle"
  /\ stopPc' = "idle"
  /\ proc' = [p \in Procs |-> IdleProc]
  /\ conf' = [k \in Ticks |-> IdleConf]
  /\ hook' = IdleHook
  /\ call' = [c \in Callers |-> IdleCall]
  /\ sweep' = [s \in Sweepers |-> IdleSweep]
  /\ wd' = [w \in WdCalls |-> IdleWd]
  /\ collect' = IdleCollect
  /\ UNCHANGED <<chain, latest, scanState, transfers, receiver, callbacks,
                 withdrawals, caught, fmt, wallets, answered, registry>>
  /\ cache' = <<>>
  /\ attr' = IdleAttr
  /\ fetch' = IdleFetch
  /\ pend' = IdlePend
  /\ coll' = [coll EXCEPT !.pc = "idle", !.address = "none", !.amount = 0]

(***************************************************************************)
(* Specifications                                                          *)
(***************************************************************************)
Engine ==
  \/ GatewayHeight
  \/ StartScanning \/ StartCheck \/ StartInit \/ StartInitFails \/ StartRun
  \/ StopScanning \/ StopPersist

Ingest(p) ==
  \/ Fetch(p) \/ FetchFails(p) \/ Filter(p)
  \/ SaveFind(p) \/ SaveInsert(p) \/ SaveFails(p)

\* the scan cursor and its writers: the scan loop, manualScan, start and stop
NextScan ==
  \/ Engine
  \/ ScanTick \/ ScanRead \/ ManualScan
  \/ \E p \in {"scan", "manual"} : Ingest(p) \/ Advance(p) \/ AdvanceFails(p)
  \/ Balance

SpecScan == InitScan /\ [][NextScan]_vars

\* the engine is running on an empty database: the state after a start whose
\* first cycle failed to fetch
InitTransfer ==
  /\ chain = ChainB
  /\ latest \in Heights
  /\ scanState = [exists |-> TRUE, isScanning |-> TRUE,
                  lastScannedBlock |-> startBlockNumber]
  /\ isScanning = TRUE
  /\ isScanningBlocks = FALSE
  /\ timers = [scan |-> TRUE, confirmation |-> TRUE, webhook |-> TRUE,
               sweeper |-> TRUE, collection |-> TRUE]
  /\ startPc = "idle"
  /\ stopPc = "idle"
  /\ proc = [p \in Procs |-> IdleProc]
  /\ transfers = {}
  /\ conf = [k \in Ticks |-> IdleConf]
  /\ hook = IdleHook
  /\ InitCallback
  /\ InitServices

\* the confirmation pipeline: re-scans, overlapping confirmation ticks and the
\* eligibility loop on the Transfer collection
NextTransfer ==
  \/ GatewayHeight
  \/ RescanMissingBlocks \/ Ingest("rescan")
  \/ \E k \in Ticks : ConfirmationTick(k) \/ ConfirmationSave(k) \/ ConfirmationFails(k)
  \/ WebhookTick \/ WebhookSend \/ WebhookMark

SpecTransfer == InitTransfer /\ [][NextTransfer]_vars

\* ingestion by the scan loop, manualScan and rescanMissingBlocks, interleaved,
\* of Transfers that the confirmation loop advances meanwhile; the gateway
\* stays at the height Init draws
NextIngest ==
  \/ ScanTick \/ ScanRead \/ ManualScan \/ RescanMissingBlocks
  \/ \E p \in Procs : Ingest(p)
  \/ \E p \in {"scan", "manual"} : Advance(p) \/ AdvanceFails(p)
  \/ Balance
  \/ ConfirmationTick(1) \/ ConfirmationSave(1) \/ ConfirmationFails(1)

SpecIngest == InitTransfer /\ [][NextIngest]_vars

\* the callback subsystem alone: the engine has been started, its loops are
\* left out
InitQueue == InitTransfer /\ latest = MinHeight

Deliver(c, keys, cap) ==
  \/ \E key \in keys : SendCallback(c, key, cap)
  \/ Post(c)
  \/ EnqueueFind(c)
  \/ EnqueueSave(c)
Sweep(s) ==
  SweepTick(s) \/ SweepLoad(s) \/ SweepSend(s) \/ SweepSave(s) \/ SweepSiblings(s)

\* deliveries of a withdrawal and of a deposit in flight together, one sweeper
\* pass at a time
NextCallback ==
  \/ ReceiverSettles
  \/ TimePasses
  \/ \E c \in Callers : Deliver(c, {KeyW1, KeyD}, MaxCallbacks)
  \/ Sweep(1)
SpecCallback == InitQueue /\ [][NextCallback]_vars

\* one delivery at a time: the calls of addPendingCallback do not overlap
NextSerial ==
  \/ ReceiverSettles
  \/ TimePasses
  \/ Deliver(1, Keys, MaxCallbacks)
  \/ Sweep(1)
SpecSerial == InitQueue /\ [][NextSerial]_vars

\* sweeper passes in flight together: a tick of the interval does not wait for
\* the pass of the tick before, and every startScanning adds an interval
NextOverlap ==
  \/ ReceiverSettles
  \/ TimePasses
  \/ Deliver(1, {KeyW1, KeyD}, MaxCallbacks)
  \/ \E s \in Sweepers : Sweep(s)
SpecOverlap == InitQueue /\ [][NextOverlap]_vars

\* the sweeper keeps ticking: time passes, and a pass that can take a step
\* takes it; the deliveries and the receiver are under no obligation
NextFair ==
  \/ ReceiverSettles
  \/ TimePasses
  \/ Deliver(1, {KeyW1}, MaxFairRows)
  \/ \E s \in Sweepers : Sweep(s)
SpecFair ==
  /\ InitQueue
  /\ [][NextFair]_vars
  /\ WF_vars(TimePasses)
  /\ \A s \in Sweepers : WF_vars(Sweep(s))

\* attribution of candidate sets of each size while addresses are subscribed
\* and wallets created and disabled, and cache entries expire
InitFilter == InitScan /\ latest = MinHeight
NextFilter == RegistryChanges \/ CacheExpires \/ Attribute \/ AttributeLook
SpecFilter == InitFilter /\ [][NextFilter]_vars

\* the calls of CacheService in any order on an empty Map, while entries expire
InitCache == InitScan /\ latest = MaxHeight
NextCache ==
  \/ \E key \in CacheKeys : CacheSetCall(key) \/ CacheGetCall(key) \/ CacheDeleteCall(key)
  \/ CacheClear \/ CacheExpires \/ CleanupExpired
SpecCache == InitCache /\ [][NextCache]_vars

\* scan cycles of a running engine that is up to 300 blocks behind: ranges of
\* one query and ranges of two chunks
InitChunks ==
  /\ chain = ChainB
  /\ latest \in WideHeights
  /\ scanState = [exists |-> TRUE, isScanning |-> TRUE,
                  lastScannedBlock |-> startBlockNumber]
  /\ isScanning = TRUE
  /\ isScanningBlocks = FALSE
  /\ timers = [scan |-> TRUE, confirmation |-> TRUE, webhook |-> TRUE,
               sweeper |-> TRUE, collection |-> TRUE]
  /\ startPc = "idle"
  /\ stopPc = "idle"
  /\ proc = [p \in Procs |-> IdleProc]
  /\ transfers = {}
  /\ conf = [k \in Ticks |-> IdleConf]
  /\ hook = IdleHook
  /\ InitCallback
  /\ InitServices
NextChunks ==
  \/ ScanTick \/ ScanReadWide \/ ChunkAttempt
  \/ Filter("scan") \/ SaveFind("scan") \/ SaveInsert("scan") \/ SaveFails("scan")
  \/ Advance("scan") \/ AdvanceFails("scan")
  \/ Balance
SpecChunks == InitChunks /\ [][NextChunks]_vars

\* one sweeper pass on a queue of due rows, one row a key and a second row
\* for the first key that was created last and is the longest overdue (the
\* first row of the key has been attempted since); the receiver answers 2xx
DueKeyCounts == {1, 2, 50, 51}
KeyOf(i) == <<"withdrawal", ToString(i), "1">>
InitBatch ==
  /\ chain = ChainB
  /\ latest = MinHeight
  /\ scanState = [exists |-> TRUE, isScanning |-> TRUE,
                  lastScannedBlock |-> startBlockNumber]
  /\ isScanning = TRUE
  /\ isScanningBlocks = FALSE
  /\ timers = [scan |-> TRUE, confirmation |-> TRUE, webhook |-> TRUE,
               sweeper |-> TRUE, collection |-> TRUE]
  /\ startPc = "idle"
  /\ stopPc = "idle"
  /\ proc = [p \in Procs |-> IdleProc]
  /\ transfers = {}
  /\ conf = [k \in Ticks |-> IdleConf]
  /\ hook = IdleHook
  /\ receiver = "up"
  /\ call = [c \in Callers |-> IdleCall]
  /\ sweep = [s \in Sweepers |-> IdleSweep]
  /\ InitServices
  /\ \E n \in DueKeyCounts :
       callbacks = {[NewCallback({}, KeyOf(i)) EXCEPT !.id = i, !.nextRetryIn = 0,
                                                     !.retryCount = IF i = 1 THEN 1 ELSE 0,
                                                     !.attempts = IF i = 1 THEN 1 ELSE 0]
                      : i \in 1..n}
                   \cup {[NewCallback({}, KeyOf(1)) EXCEPT !.id = n + 1,
                                                          !.nextRetryIn = -MaxOverdue]}
NextBatch == Sweep(1)
SpecBatch == InitBatch /\ [][NextBatch]_vars

\* a process that was started again over records a crash left pending: the
\* interval of the withdrawal processor is set and keeps ticking, a pass that
\* can take a step takes it, and the store does not fail every find
InitPending ==
  /\ chain = ChainB
  /\ latest = MinHeight
  /\ scanState = [exists |-> TRUE, isScanning |-> FALSE,
                  lastScannedBlock |-> startBlockNumber]
  /\ isScanning = FALSE
  /\ isScanningBlocks = FALSE
  /\ timers = [scan |-> FALSE, confirmation |-> FALSE, webhook |-> FALSE,
               sweeper |-> FALSE, collection |-> FALSE]
  /\ startPc = "idle"
  /\ stopPc = "idle"
  /\ proc = [p \in Procs |-> IdleProc]
  /\ transfers = {}
  /\ conf = [k \in Ticks |-> IdleConf]
  /\ hook = IdleHook
  /\ InitCallback
  /\ InitRest
  /\ \E n \in PendingCounts : withdrawals = LeftPending(n)
NextPending == StartWithdrawalProcessor \/ PendingPass
SpecPending ==
  /\ InitPending
  /\ [][NextPending]_vars
  /\ WF_vars(StartWithdrawalProcessor)
  /\ WF_vars(PendingPass)
  /\ SF_vars(PendFind)

\* a fresh process with no withdrawal record
InitWithdrawal == InitScan /\ latest = MinHeight

\* the withdrawal service: calls of createWithdrawal and retryWithdrawal in
\* flight together
Withdraw(w) ==
  \/ CreateWithdrawal(w) \/ CreateValidate(w) \/ CreateBalance(w) \/ CreateSave(w)
  \/ RetryWithdrawal(w)
  \/ ProcessStart(w) \/ ProcessTransfer(w) \/ ProcessFinish(w)
NextWithdrawal == \E w \in Wds : Withdraw(w)
SpecWithdrawal == InitWithdrawal /\ [][NextWithdrawal]_vars

\* the three callers of processWithdrawal together: createWithdrawal,
\* retryWithdrawal and the background pass over the pending records
InitSubmit == InitScan /\ latest = MaxHeight
NextSubmit ==
  \/ \E w \in Wds : Withdraw(w)
  \/ StartWithdrawalProcessor \/ PendingPass
SpecSubmit == InitSubmit /\ [][NextSubmit]_vars

\* the withdrawal processor of a process that may die once while a pass is
\* in flight and is started again by index.ts: the records stay as the dead
\* process saved them, the interval is set again and keeps ticking
NextStuck == StartWithdrawalProcessor \/ PendingPass \/ Crash
SpecStuck ==
  /\ InitPending
  /\ [][NextStuck]_vars
  /\ WF_vars(StartWithdrawalProcessor)
  /\ WF_vars(PendingPass)
  /\ SF_vars(PendFind)

\* the five periodic loops of a running engine, each with its failures, one
\* tick of a loop at a time, at one height of the chain
Collect == CollectTick \/ CollectQuery \/ CollectFails \/ CollectFunds
\* a running engine whose retry queue holds one row that is due
InitLoops ==
  /\ chain = ChainB
  /\ latest \in Heights
  /\ scanState = [exists |-> TRUE, isScanning |-> TRUE,
                  lastScannedBlock |-> startBlockNumber]
  /\ isScanning = TRUE
  /\ isScanningBlocks = FALSE
  /\ timers = [scan |-> TRUE, confirmation |-> TRUE, webhook |-> TRUE,
               sweeper |-> TRUE, collection |-> TRUE]
  /\ startPc = "idle"
  /\ stopPc = "idle"
  /\ proc = [p \in Procs |-> IdleProc]
  /\ transfers = {}
  /\ conf = [k \in Ticks |-> IdleConf]
  /\ hook = IdleHook
  /\ receiver = "flaky"
  /\ callbacks = {[NewCallback({}, KeyW1) EXCEPT !.nextRetryIn = 0]}
  /\ call = [c \in Callers |-> IdleCall]
  /\ sweep = [s \in Sweepers |-> IdleSweep]
  /\ InitServices
NextLoops ==
  \/ ScanTick \/ ScanRead \/ Ingest("scan")
  \/ Advance("scan") \/ AdvanceFails("scan") \/ Balance
  \/ ConfirmationTick(1) \/ ConfirmationSave(1) \/ ConfirmationFails(1)
  \/ WebhookTick \/ WebhookSend \/ WebhookMark \/ WebhookFails
  \/ Sweep(1) \/ SweepFails(1)
  \/ Collect
SpecLoops == InitLoops /\ [][NextLoops]_vars

\* the settlement sweeper wallet by wallet while the scan loop credits the
\* deposits of the chain, at one height
ChainC == {Event("t4", 2, "w", 5), Event("t3", 3, "w", 7)}
InitSettle ==
  /\ chain = ChainC
  /\ latest = MaxHeight
  /\ scanState = [exists |-> TRUE, isScanning |-> TRUE,
                  lastScannedBlock |-> startBlockNumber]
  /\ isScanning = TRUE
  /\ isScanningBlocks = FALSE
  /\ timers = [scan |-> TRUE, confirmation |-> TRUE, webhook |-> TRUE,
               sweeper |-> TRUE, collection |-> TRUE]
  /\ startPc = "idle"
  /\ stopPc = "idle"
  /\ proc = [p \in Procs |-> IdleProc]
  /\ transfers = {}
  /\ conf = [k \in Ticks |-> IdleConf]
  /\ hook = IdleHook
  /\ InitCallback
  /\ InitServices
CollectPass ==
  \/ CollectTick \/ CollectWallets \/ CollectFails
  \/ CollectWalletFunds \/ TransferBNBForGas \/ TransferUSDT \/ ResetBalance
NextSettle ==
  \/ ScanTick \/ ScanRead \/ Ingest("scan")
  \/ Advance("scan") \/ AdvanceFails("scan") \/ Balance
  \/ CollectPass
SpecSettle == InitSettle /\ [][NextSettle]_vars

\* the scan loop on a chain where one transaction carries two Transfer logs,
\* one to a subscribed address and one to a wallet
ChainD == {Event("t5", 2, "a", 4), Event("t5", 2, "w", 6), Event("t3", 3, "w", 7)}
InitShared ==
  /\ chain = ChainD
  /\ latest \in Heights
  /\ scanState = [exists |-> TRUE, isScanning |-> TRUE,
                  lastScannedBlock |-> startBlockNumber]
  /\ isScanning = TRUE
  /\ isScanningBlocks = FALSE
  /\ timers = [scan |-> TRUE, confirmation |-> TRUE, webhook |-> TRUE,
               sweeper |-> TRUE, collection |-> TRUE]
  /\ startPc = "idle"
  /\ stopPc = "idle"
  /\ proc = [p \in Procs |-> IdleProc]
  /\ transfers = {}
  /\ conf = [k \in Ticks |-> IdleConf]
  /\ hook = IdleHook
  /\ InitCallback
  /\ InitServices
NextShared ==
  \/ GatewayHeight
  \/ ScanTick \/ ScanRead \/ Ingest("scan")
  \/ Advance("scan") \/ AdvanceFails("scan") \/ Balance
SpecShared == InitShared /\ [][NextShared]_vars

\* the callback-eligibility loop of a running engine on a Transfer collection
\* that holds confirmed Transfers to the subscribed address, one per block, and
\* after them one confirmed Transfer to the wallet address
BacklogCounts == {0, 1, 49, 50}
Backlog(n) ==
  {[NewTransfer({}, Event(ToString(i), i, "a", 1))
      EXCEPT !.id = i, !.status = "confirmed", !.confirmationCount = confirmationBlocks]
     : i \in 1..n}
  \cup {[NewTransfer({}, Event(ToString(n + 1), n + 1, "w", 1))
           EXCEPT !.id = n + 1, !.status = "confirmed",
                  !.confirmationCount = confirmationBlocks]}
InitStarve ==
  /\ chain = {}
  /\ latest = MaxHeight
  /\ scanState = [exists |-> TRUE, isScanning |-> TRUE,
                  lastScannedBlock |-> startBlockNumber]
  /\ isScanning = TRUE
  /\ isScanningBlocks = FALSE
  /\ timers = [scan |-> TRUE, confirmation |-> TRUE, webhook |-> TRUE,
               sweeper |-> TRUE, collection |-> TRUE]
  /\ startPc = "idle"
  /\ stopPc = "idle"
  /\ proc = [p \in Procs |-> IdleProc]
  /\ \E n \in BacklogCounts : transfers = Backlog(n)
  /\ conf = [k \in Ticks |-> IdleConf]
  /\ hook = IdleHook
  /\ InitCallback
  /\ InitServices
\* no lookup and no markWebhookSent throws; the interval keeps ticking and a
\* tick in flight goes on
NextStarve == WebhookTick \/ WebhookSend \/ WebhookMark
SpecStarve ==
  /\ InitStarve
  /\ [][NextStarve]_vars
  /\ WF_vars(WebhookTick)
  /\ WF_vars(WebhookSend)
  /\ WF_vars(WebhookMark)

\* the scan loop and rescans on a chain where one block carries two
\* transactions, one to the subscribed address and one to the wallet
ChainE == {Event("t6", 2, "a", 4), Event("t7", 2, "w", 6), Event("t3", 3, "w", 7)}
InitRescan ==
  /\ chain = ChainE
  /\ latest = MaxHeight
  /\ scanState = [exists |-> TRUE, isScanning |-> TRUE,
                  lastScannedBlock |-> startBlockNumber]
  /\ isScanning = TRUE
  /\ isScanningBlocks = FALSE
  /\ timers = [scan |-> TRUE, confirmation |-> TRUE, webhook |-> TRUE,
               sweeper |-> TRUE, collection |-> TRUE]
  /\ startPc = "idle"
  /\ stopPc = "idle"
  /\ proc = [p \in Procs |-> IdleProc]
  /\ transfers = {}
  /\ conf = [k \in Ticks |-> IdleConf]
  /\ hook = IdleHook
  /\ InitCallback
  /\ InitServices
NextRescan ==
  \/ ScanTick \/ ScanRead \/ Ingest("scan")
  \/ Advance("scan") \/ AdvanceFails("scan") \/ Balance
  \/ RescanMissingBlocks \/ RescanSkips \/ Ingest("rescan")
SpecRescan == InitRescan /\ [][NextRescan]_vars

\* the amount conversions on every raw amount of RawAmounts
InitFormat ==
  /\ chain = ChainB
  /\ latest = MinHeight
  /\ scanState = [exists |-> FALSE, isScanning |-> FALSE, lastScannedBlock |-> 0]
  /\ isScanning = FALSE
  /\ isScanningBlocks = FALSE
  /\ timers = [scan |-> FALSE, confirmation |-> FALSE, webhook |-> FALSE,
               sweeper |-> FALSE, collection |-> FALSE]
  /\ startPc = "idle"
  /\ stopPc = "idle"
  /\ proc = [p \in Procs |-> IdleProc]
  /\ transfers = {}
  /\ conf = [k \in Ticks |-> IdleConf]
  /\ hook = IdleHook
  /\ InitCallback
  /\ wallets = [a \in ActiveWallets |-> NoFunds]
  /\ crashedAt = "none"
  /\ answered = NoAnswers
  /\ registry = [subscribed |-> {SubscribedAddress}, wallets |-> {WalletAddress}]
  /\ cache = <<>>
  /\ attr = IdleAttr
  /\ fetch = IdleFetch
  /\ pend = IdlePend
  /\ coll = IdleColl
  /\ withdrawals = {}
  /\ wd = [w \in WdCalls |-> IdleWd]
  /\ collect = IdleCollect
  /\ caught = "none"
  /\ \E amount \in RawAmounts : fmt = [IdleFmt EXCEPT !.amount = amount]
NextFormat == Format \/ Restore
SpecFormat == InitFormat /\ [][NextFormat]_vars

\* scan cycles of a running engine far behind, next to and at the head of a
\* chain that holds no Transfer past the cursor
RangeCursors == {3, 99, 130, 153, 154, 160}
RangeHeights == {105, 160, 161, 400}
InitRange ==
  /\ chain = ChainB
  /\ latest \in RangeHeights
  /\ \E lastScannedBlock \in RangeCursors :
       scanState = [exists |-> TRUE, isScanning |-> TRUE,
                    lastScannedBlock |-> lastScannedBlock]
  /\ isScanning = TRUE
  /\ isScanningBlocks = FALSE
  /\ timers = [scan |-> TRUE, confirmation |-> TRUE, webhook |-> TRUE,
               sweeper |-> TRUE, collection |-> TRUE]
  /\ startPc = "idle"
  /\ stopPc = "idle"
  /\ proc = [p \in Procs |-> IdleProc]
  /\ transfers = {}
  /\ conf = [k \in Ticks |-> IdleConf]
  /\ hook = IdleHook
  /\ InitCallback
  /\ InitServices
NextRange ==
  \/ ScanTick \/ ScanRead
  \/ Fetch("scan") \/ FetchFails("scan")
  \/ Advance("scan") \/ AdvanceFails("scan")
SpecRange == InitRange /\ [][NextRange]_vars

\* the scan loop of a process that may die once and is started again, on a
\* chain whose deposit to a wallet is deep enough to be scanned
InitRecover == InitScan /\ latest = MaxHeight
ScanCycle ==
  \/ ScanTick \/ ScanRead \/ Ingest("scan")
  \/ Advance("scan") \/ AdvanceFails("scan") \/ Balance
Restart == StartScanning \/ StartCheck \/ StartInit \/ StartInitFails \/ StartRun
NextRecover == ScanCycle \/ Restart \/ Crash
SpecRecover ==
  InitRecover /\ [][NextRecover]_vars /\ WF_vars(ScanCycle) /\ WF_vars(Restart)

(***************************************************************************)
(* Properties                                                              *)
(***************************************************************************)
\* C1: across scan cycles (failing ones included), manualScan calls and
\* stop/start of the engine, the persisted lastScannedBlock never decreases
C1_CursorNeverDecreases ==
  [][scanState'.lastScannedBlock >= scanState.lastScannedBlock]_vars

\* C2: a scan cycle in which the attribution lookup or the persistence of a
\* matched event failed ends without having changed lastScannedBlock
C2_FailedCycleKeepsCursor ==
  [][(proc["scan"].err /\ proc["scan"].pc = "advance" /\ proc'["scan"].pc # "advance")
       => scanState'.lastScannedBlock = scanState.lastScannedBlock]_vars

\* C3: however often and however interleaved a block range is processed, there
\* is one Transfer per transaction hash, and a save step of the scan loop,
\* manualScan or rescanMissingBlocks changes no field of an existing Transfer
C3_IdempotentIngestion ==
  [][/\ \A r1 \in transfers', r2 \in transfers' :
          r1.transactionHash = r2.transactionHash => r1 = r2
     /\ (\E p \in Procs : proc[p].pc \in {"find", "insert"} /\ proc'[p] # proc[p])
          => transfers \subseteq transfers']_vars

\* a run met a Transfer that had been stored and confirmed before
C3_Witness ==
  \E p \in Procs : proc[p].seen /\ \E r \in transfers : r.status = "confirmed"

\* C9: a Transfer that is confirmed stays confirmed in every step
C9_NeverUnconfirmed ==
  [][\A r \in transfers : r.status = "confirmed" =>
       \E r2 \in transfers' : r2.id = r.id /\ r2.status = "confirmed"]_vars

\* a confirmed Transfer on which an overlapping tick with an older height has
\* saved afterwards: its count is below the confirmation depth
C9_Witness ==
  \E r \in transfers : r.status = "confirmed" /\ r.confirmationCount < confirmationBlocks

\* C10: while a Transfer is pending its confirmationCount never decreases
C10_CountNeverDecreases ==
  [][\A r \in transfers, r2 \in transfers' :
       (r.id = r2.id /\ r.status = "pending" /\ r2.status = "pending")
         => r2.confirmationCount >= r.confirmationCount]_vars

\* C4: when an immediate delivery returns without a 2xx answer, a pending row
\* of its key is in the queue
C4_ExhaustedIsEnqueued ==
  [][\A c \in Callers :
       (call[c].pc # "idle" /\ call'[c].pc = "idle" /\ call'[c].result # "delivered")
         => \E r \in callbacks' : r.key = call[c].key /\ r.status = "pending"]_vars

\* C5: a pending row whose receiver answers 2xx while fewer than maxRetries
\* sweeper attempts have been made for it is completed in the end, and a
\* delivery of its key has been answered with 2xx
C5_EventuallyDelivered ==
  \A i \in 1..MaxFairRows :
    (\E r \in callbacks : /\ r.id = i
                          /\ r.status = "pending"
                          /\ r.attempts < callbackMaxRetries
                          /\ receiver = "up")
      ~> (\E r \in callbacks : /\ r.id = i
                               /\ r.status = "completed"
                               /\ \E q \in callbacks : q.key = r.key /\ q.acked)
C5_Witness ==
  \E r \in callbacks : /\ r.status = "completed"
                       /\ r.retryCount > 0
                       /\ r.acked
                       /\ receiver = "up"

\* C6: the sweeper makes at most maxRetries attempts for a row, and retryCount
\* stays at or below maxRetries
C6_RetryCeiling ==
  \A r \in callbacks : /\ r.attempts <= callbackMaxRetries
                       /\ r.retryCount <= callbackMaxRetries

\* C7: addPendingCallback changes nothing when a pending row of the key exists,
\* and with enqueues that do not overlap a key has at most one pending row
C7_EnqueueOncePerKey ==
  /\ [][\A c \in Callers :
          (/\ call[c].pc = "find"
           /\ call'[c] # call[c]
           /\ \E r \in callbacks : r.key = call[c].key /\ r.status = "pending")
            => callbacks' = callbacks /\ call'[c].pc = "idle"]_vars
  /\ [](\A r1 \in callbacks, r2 \in callbacks :
          (r1.key = r2.key /\ r1.status = "pending" /\ r2.status = "pending")
            => r1 = r2)
C7_Witness ==
  /\ \E c \in Callers : call[c].result = "existing"
  /\ \E r \in callbacks : r.status = "pending"

\* C8: the save after a successful attempt makes the row completed, and the
\* update after it makes every pending row of the same key completed
C8_SuccessCompletesSiblings ==
  [][\A s \in Sweepers :
       /\ (sweep[s].pc = "save" /\ sweep[s].success /\ sweep'[s] # sweep[s])
            => \E r \in callbacks' : r.id = sweep[s].doc.id /\ r.status = "completed"
       /\ (sweep[s].pc = "siblings" /\ sweep'[s] # sweep[s])
            => \A r \in callbacks :
                 (r.key = sweep[s].doc.key /\ r.status = "pending")
                   => \E r2 \in callbacks' : r2.id = r.id /\ r2.status = "completed"]_vars
C8_Witness ==
  \E r \in callbacks, q \in callbacks :
    /\ r.key = q.key
    /\ r.status = "completed" /\ r.acked
    /\ q.status = "completed" /\ q.lastError = "absorbed"

\* C11: a new Transfer is pending with confirmationCount 0; a save of a
\* confirmation tick leaves the Transfer confirmed exactly when the height the
\* tick read is confirmationBlocks or more above the Transfer's block (or the
\* Transfer was confirmed before), and the status changes at no other step
C11_ConfirmedAtDepth ==
  [][/\ \A r2 \in transfers' :
          (\A r \in transfers : r.id # r2.id)
            => r2.status = "pending" /\ r2.confirmationCount = 0
     /\ \A k \in Ticks :
          (conf[k].pc = "save" /\ conf'[k].saved /\ conf'[k] # conf[k])
            => LET doc == Head(conf[k].docs)
                   deep == conf[k].latestBlock - doc.blockNumber >= confirmationBlocks
               IN \A r \in transfers :
                    r.id = doc.id
                      => \E r2 \in transfers' :
                           /\ r2.id = r.id
                           /\ (r2.status = "confirmed") = (deep \/ r.status = "confirmed")
     /\ \A r \in transfers, r2 \in transfers' :
          (r.id = r2.id /\ r.status # r2.status)
            => \E k \in Ticks :
                 /\ conf[k].pc = "save"
                 /\ Head(conf[k].docs).id = r.id
                 /\ conf[k].latestBlock - r.blockNumber >= confirmationBlocks]_vars
C11_Witness ==
  /\ \E r \in transfers : r.status = "confirmed" /\ r.confirmationCount = confirmationBlocks
  /\ \E k \in Ticks : conf[k].saved /\ conf[k].pc = "idle"

\* C12: a createWithdrawal call whose address is invalid, whose amount is not
\* positive, or whose amount exceeds the balance read from the withdrawal
\* wallet returns a rejection, and the step that rejects persists no record;
\* no stored record carries an amount that is not positive.
C12_RejectedPersistsNothing ==
  [][/\ \A w \in Wds :
          /\ (/\ wd[w].pc = "validate" /\ wd'[w] # wd[w]
              /\ (~wd[w].validAddress \/ wd[w].amount <= 0))
               => /\ wd'[w].pc = "idle" /\ wd'[w].result = "rejected"
                  /\ withdrawals' = withdrawals
          /\ (/\ wd[w].pc = "balance" /\ wd'[w] # wd[w]
              /\ wd'[w].balance < wd[w].amount)
               => /\ wd'[w].pc = "idle" /\ wd'[w].result = "rejected"
                  /\ withdrawals' = withdrawals
          /\ (wd[w].kind = "create" /\ wd'[w].result = "rejected" /\ wd'[w] # wd[w])
               => withdrawals' = withdrawals
     /\ \A r \in withdrawals' : r.amount > 0 /\ r.amount <= MaxBalance]_vars

\* a request for more than the wallet holds has been rejected, one with an
\* amount that is not positive has been rejected, and nothing is stored
C12_Witness ==
  /\ withdrawals = {}
  /\ \E w \in Wds : /\ wd[w].kind = "create" /\ wd[w].result = "rejected"
                    /\ wd[w].validAddress /\ wd[w].amount > 0
                    /\ wd[w].balance < wd[w].amount
  /\ \E w \in Wds : /\ wd[w].kind = "create" /\ wd[w].result = "rejected"
                    /\ wd[w].amount <= 0

\* the code transferStatus of a withdrawal status
TransferStatusOf(status) ==
  CASE status = "processing" -> "0"
    [] status = "completed" -> "1"
    [] status = "failed" -> "2"
    [] OTHER -> ""

\* C13: every withdrawal transition pending -> processing, processing ->
\* completed and processing -> failed starts a withdrawal callback carrying
\* the transferStatus 0, 1 or 2 of the status entered.
C13_TransitionSendsCallback ==
  [][\A r \in withdrawals, r2 \in withdrawals' :
       (/\ r.id = r2.id
        /\ <<r.status, r2.status>> \in {<<"pending", "processing">>,
                                        <<"processing", "completed">>,
                                        <<"processing", "failed">>})
         => \E c \in Callers : /\ call'[c] # call[c]
                               /\ call'[c].pc = "post"
                               /\ call'[c].key[1] = "withdrawal"
                               /\ call'[c].key[3] = TransferStatusOf(r2.status)]_vars

\* C14: a record enters processing only from pending, or from failed with a
\* retryCount below 3; a rejected retryWithdrawal leaves the records as they
\* are; no retryCount exceeds 3.
C14_RetryOnlyFromFailed ==
  [][/\ \A r \in withdrawals, r2 \in withdrawals' :
          (r.id = r2.id /\ r2.status = "processing" /\ r.status # "processing")
            => \/ r.status = "pending"
               \/ r.status = "failed" /\ r.retryCount < maxManualRetries
     /\ \A w \in Wds :
          (wd'[w].kind = "retry" /\ wd'[w].result = "rejected" /\ wd'[w] # wd[w])
            => withdrawals' = withdrawals
     /\ \A r2 \in withdrawals' : r2.retryCount <= maxManualRetries]_vars

\* C23: the status of a WithdrawalRecord only moves pending -> processing,
\* processing -> completed, processing -> failed and failed -> processing; a
\* completed record is never written again and has its transactionHash; each
\* move to failed adds exactly one to retryCount.
C23_StatusMoves ==
  [][\A r \in withdrawals, r2 \in withdrawals' :
       r.id = r2.id
         => /\ r.status # r2.status
                 => <<r.status, r2.status>> \in {<<"pending", "processing">>,
                                                 <<"processing", "completed">>,
                                                 <<"processing", "failed">>,
                                                 <<"failed", "processing">>}
            /\ r.status = "completed" => r2 = r
            /\ r2.status = "completed" => r2.transactionHash # "none"
            /\ (r2.status = "failed" /\ r.status # "failed")
                 => r2.retryCount = r.retryCount + 1]_vars

\* C24: a Transfer has webhookSent only when it is confirmed and
\* sendDepositCallback returned true for it (a delivery answered 2xx), and
\* webhookSent never goes back to false.
C24_SentMeansDelivered ==
  [][/\ \A r2 \in transfers' :
          r2.webhookSent => r2.status = "confirmed" /\ r2.id \in answered'.ok
     /\ \A r \in transfers, r2 \in transfers' :
          (r.id = r2.id /\ r.webhookSent) => r2.webhookSent]_vars

\* a Transfer was marked by the tick that delivered it, after a tick that
\* did not deliver it
C24_Witness ==
  /\ \E r \in transfers :
       r.webhookSent /\ r.id \in answered.ok /\ r.id \in answered.failed
  /\ hook.pc = "idle"

\* C25: a Transfer for which sendDepositCallback returned false in a tick of
\* the eligibility loop is not handed to sendDepositCallback by a later tick.
C25_NoSecondAttemptByTick ==
  [][WebhookSend
       => (Head(hook.docs).toAddress \in ActiveWallets
             => Head(hook.docs).id \notin answered.failed)]_vars

\* C26: a filterTargetEvents call on a candidate set of any size, answered
\* from the cache or from the store, returns exactly the candidates that are
\* subscribed or belong to an active wallet when it looks.
C26_ExactAttribution ==
  attr.pc = "done" => attr.result = attr.expected

\* C27: a scan cycle whose log fetch abandoned a chunk after 3 attempts does
\* not write the cursor: lastScannedBlock never moves to or past a block of
\* an abandoned chunk.
C27_AbandonedChunkKeepsCursor ==
  [][Advance("scan")
       => \A chunk \in fetch.abandoned :
            scanState'.lastScannedBlock < chunk.from]_vars

\* the rows a sweeper pass that starts in this step will work on
PassRows(s) ==
  {r \in callbacks : \E i \in 1..Len(sweep'[s].batch) : sweep'[s].batch[i] = r.id}

\* C28: a sweeper pass works on at most one row of a key, on at most 50 keys,
\* and the row of a key is the earliest-created of its due pending rows.
C28_EarliestCreatedPerKey ==
  [][\A s \in Sweepers :
       (sweep[s].pc = "idle" /\ sweep'[s].pc = "load")
         => /\ Len(sweep'[s].batch) <= sweepLimit
            /\ Cardinality(PassRows(s)) = Len(sweep'[s].batch)
            /\ \A r \in PassRows(s), q \in PassRows(s) : r.key = q.key => r = q
            /\ \A r \in PassRows(s) :
                 /\ r \in Due(callbacks)
                 /\ \A q \in Due(callbacks) : q.key = r.key => r.id <= q.id]_vars

\* C28 (amended): a sweeper pass works on at most one row of a key, on at
\* most 50 keys, and the row of a key is the first of its due pending rows by
\* nextRetryAt, and by creation among rows of one nextRetryAt.
C28_FirstDuePerKey ==
  [][\A s \in Sweepers :
       (sweep[s].pc = "idle" /\ sweep'[s].pc = "load")
         => /\ Len(sweep'[s].batch) <= sweepLimit
            /\ Cardinality(PassRows(s)) = Len(sweep'[s].batch)
            /\ \A r \in PassRows(s), q \in PassRows(s) : r.key = q.key => r = q
            /\ \A r \in PassRows(s) :
                 /\ r \in Due(callbacks)
                 /\ \A q \in Due(callbacks) :
                      q.key = r.key
                        => \/ r.nextRetryIn < q.nextRetryIn
                           \/ r.nextRetryIn = q.nextRetryIn /\ r.id <= q.id]_vars

\* a pass has started with 50 rows while 51 keys are due, and the row it holds
\* for a key of two due rows is the one created last
C28_Witness ==
  /\ sweep[1].pc = "load"
  /\ Len(sweep[1].batch) = sweepLimit
  /\ Cardinality({r.key : r \in Due(callbacks)}) > sweepLimit
  /\ \E r \in Due(callbacks), q \in Due(callbacks) :
       /\ r.key = q.key /\ r.id < q.id
       /\ \E i \in 1..Len(sweep[1].batch) : sweep[1].batch[i] = q.id

\* C29: the status of a PendingCallback row only moves pending -> completed
\* or pending -> failed, and no delivery is made for a row that is completed
\* or failed, also with two sweeper passes in flight.
C29_SettledRowsStay ==
  [][\A r \in callbacks, r2 \in callbacks' :
       r.id = r2.id
         => /\ r.status # r2.status
                 => r.status = "pending" /\ r2.status \in {"completed", "failed"}
            /\ r.status # "pending" => r2.attempts = r.attempts]_vars

C40_ProcessingEnds ==
  (/\ crashedAt # "none"
   /\ \E r \in withdrawals : r.status = "processing")
    ~> (\A r \in withdrawals : r.status \in {"completed", "failed"})

\* C31: for a wallet whose collection fails on every attempt, the automatic
\* retries are bounded: while no attempt has succeeded, the collection attempts
\* made for the wallet, and so the gas-funding transfers sent to it, stay
\* within the retry ceiling of the settlement services.
C31_RetriesBounded ==
  coll.succeeded = 0 => coll.attempts <= maxManualRetries /\ coll.gas <= maxManualRetries

\* C36: between collections and credits the ledger balance of a wallet is the
\* sum of the deposits credited to it minus what the collections moved out,
\* unless the store refused a reset: a credit during a collection is neither
\* lost nor counted as collected, and a reset is not undone by a credit.
C36_LedgerIsCreditedMinusCollected ==
  (coll.pc # "reset" /\ ~coll.resetRefused)
    => \A a \in ActiveWallets :
         wallets[a].balance = wallets[a].totalReceived - coll.collected

\* C32: after any sequence of set, get, delete and clear the cache holds at
\* most maxSize entries, and a set performed at capacity removes the entry
\* whose key was inserted earliest among the entries held, and no other entry.
C32_BoundedFifo ==
  /\ [](Len(cache) <= maxSize)
  /\ [][\A key \in CacheKeys :
          (Len(cache) >= maxSize /\ CacheSetCall(key))
            => \A i \in 1..Len(cache) :
                 LET after == {j \in 1..Len(cache') : cache'[j].key = cache[i].key}
                 IN IF cache[i].at = 1
                      THEN \/ after = {}
                           \/ /\ cache[i].key = key
                              /\ \A j \in after : j = Len(cache') /\ cache'[j].at = j
                      ELSE after # {}]_vars

\* the Map is full after a set that deleted a key, and it holds an entry
\* that a later set rewrote where it stood
C32_Witness ==
  /\ Len(cache) = maxSize
  /\ cache[Len(cache)].evicted
  /\ cache[Len(cache)].at = maxSize
  /\ \E i \in 1..Len(cache) : cache[i].expired

\* C33: no WithdrawalRecord has its transfer submitted by two executions of
\* processWithdrawal for one processing step: no two of createWithdrawal's
\* inline call, the background pass and the retryWithdrawal calls hold, each
\* before its last save, the transaction hash of a transfer of one record.
C33_OneSubmission ==
  \A v, w \in WdCalls :
    (/\ v # w
     /\ wd[v].pc = "finish" /\ wd[w].pc = "finish"
     /\ wd[v].doc.id = wd[w].doc.id)
      => ~(wd[v].doc.transactionHash # "none" /\ wd[w].doc.transactionHash # "none")

\* C34: no PendingCallback row is being delivered by two sweeper passes at
\* one time, with a pass that outlasts the interval or with the interval of a
\* second start; and for a row that no pass holds and that was never answered
\* with 2xx, retryCount is the number of deliveries the sweeper made for it.
C34_OnePassPerRow ==
  /\ \A s1, s2 \in Sweepers :
       (/\ s1 # s2
        /\ sweep[s1].pc \in {"send", "save"}
        /\ sweep[s2].pc \in {"send", "save"})
         => sweep[s1].doc.id # sweep[s2].doc.id
  /\ \A r \in callbacks :
       (/\ ~r.acked
        /\ \A s \in Sweepers :
             ~(sweep[s].pc \in {"send", "save"} /\ sweep[s].doc.id = r.id))
         => r.attempts = r.retryCount

\* C35: when a scan cycle that met no failed lookup and no failed save writes
\* the cursor, every transfer event of its range to a subscribed or wallet
\* address has a Transfer with the event's hash, destination and amount, also
\* when two such events share one transaction hash.
C35_EveryEventPersisted ==
  [][(Advance("scan") /\ ~proc["scan"].err)
       => \A e \in chain :
            (/\ e.toAddress \in Subscribed \cup ActiveWallets
             /\ e.blockNumber >= proc["scan"].fromBlock
             /\ e.blockNumber <= proc["scan"].toBlock)
              => \E r \in transfers' : /\ r.transactionHash = e.transactionHash
                                       /\ r.toAddress = e.toAddress
                                       /\ r.amount = e.amount]_vars

\* C37: every confirmed Transfer to an active wallet address is in the end
\* attempted by the callback-eligibility loop (sendDepositCallback is called
\* for it), however many confirmed Transfers with lower block numbers are
\* waiting, Transfers to subscribed addresses with no wallet among them.
C37_EveryWalletTransferAttempted ==
  <>(\A r \in transfers :
       (r.toAddress \in ActiveWallets /\ r.status = "confirmed")
         => r.id \in answered.ok \cup answered.failed)

\* C38: once stopScanning has returned, no start is in flight and the scan
\* cycle and the manual scan that were in flight have finished, the persisted
\* ScanState.isScanning is false like the in-memory flag (the ScanState exists
\* and the flag is off only after a stop).
C38_StoppedIsPersisted ==
  (/\ ~isScanning
   /\ stopPc = "idle"
   /\ startPc = "idle"
   /\ \A p \in Procs : proc[p].pc = "idle"
   /\ scanState.exists)
    => ~scanState.isScanning

\* C39: after rescanMissingBlocks(from, to) has returned without an error,
\* every transfer event to a subscribed or wallet address in the blocks
\* from..to has a Transfer, also in a block that held a Transfer of another
\* event before the rescan (the case where the call found no block to scan);
\* tested while no scan cycle is in flight.
C39_RescanRepairsRange ==
  (/\ proc["rescan"].pc = "idle"
   /\ proc["rescan"].fromBlock # 0
   /\ proc["scan"].pc = "idle")
    => \A e \in chain :
         (/\ e.toAddress \in Subscribed \cup ActiveWallets
          /\ e.blockNumber >= proc["rescan"].fromBlock
          /\ e.blockNumber <= proc["rescan"].toBlock)
           => \E r \in transfers : r.transactionHash = e.transactionHash

\* C15: at most one scan-loop cycle is in flight; the guard is held exactly
\* while a cycle is in flight, so a tick during a cycle starts nothing and,
\* once the cycle has ended by success or by a throw, the following tick of a
\* running engine starts a cycle, also after a stop and a start.
C15_OneCycleInFlight ==
  /\ proc["scan"].inflight <= 1
  /\ isScanningBlocks <=> proc["scan"].pc # "idle"
  /\ isScanningBlocks <=> proc["scan"].inflight = 1
  /\ proc["scan"].pc # "idle" => ~ENABLED ScanTick
  /\ (timers.scan /\ isScanning /\ proc["scan"].pc = "idle") => ENABLED ScanTick

\* a cycle is in flight in a running engine after a cycle that threw
C15_Witness ==
  /\ timers.scan /\ isScanning
  /\ proc["scan"].pc = "fetch" /\ proc["scan"].inflight = 1
  /\ caught = "scan"

\* C16: a startScanning whose liveness check fails ends with isScanning false
\* and with no loop started; a startScanning called while the engine is
\* running starts nothing: an interval is only ever set by the last step of a
\* startScanning that was called on a stopped engine and whose check passed.
C16_FailedStartStartsNothing ==
  [][/\ (startPc = "check" /\ startPc' = "idle")
          => /\ ~isScanning' /\ timers' = timers
             /\ proc' = proc /\ isScanningBlocks' = isScanningBlocks
             /\ conf' = conf /\ hook' = hook /\ sweep' = sweep /\ collect' = collect
     /\ (isScanning /\ startPc = "idle") => startPc' = "idle"
     /\ ((\E f \in DOMAIN timers : timers'[f] /\ ~timers[f]) \/ (isScanning' /\ ~isScanning))
          => /\ startPc = "run" /\ startPc' = "idle" /\ ~isScanning
             /\ timers'.scan /\ isScanning']_vars

\* a startScanning has failed at its liveness check and the engine is stopped
\* with no interval set
C16_Witness ==
  /\ caught = "start"
  /\ startPc = "idle" /\ ~isScanning
  /\ \A f \in DOMAIN timers : ~timers[f]

\* C17: once stopScanning has returned and no start is under way, no periodic
\* task can start new work: the scan, confirmation, callback-eligibility,
\* callback-sweeper and collection-sweeper intervals are all cancelled.
C17_StoppedEngineIsQuiet ==
  (~isScanning /\ stopPc = "idle" /\ startPc = "idle")
    => /\ \A f \in DOMAIN timers : ~timers[f]
       /\ \A s \in Sweepers : ~ENABLED SweepTick(s)
       /\ ~ENABLED CollectTick

C19_RoundTrip ==
  fmt.pc = "restored" => Normal(fmt.back) = Normal(fmt.amount)

\* C20: a scan cycle that reads cursor and height takes fromBlock =
\* lastScannedBlock + 1 and toBlock = min(latest - confirmationBlocks,
\* fromBlock + batchSize), ends at once when fromBlock > toBlock, and asks
\* for no block with fewer than confirmationBlocks confirmations at the height
\* it read; with fromBlock 100, depth 6, height 160 and a batch of 100,
\* toBlock is 154.
C20_ScanRange ==
  [][/\ (proc["scan"].pc = "state" /\ proc'["scan"] # proc["scan"])
          => LET fromBlock == scanState.lastScannedBlock + 1
                 cycle == proc'["scan"]
             IN /\ \/ cycle.pc = "idle"
                   \/ /\ cycle.pc = "fetch"
                      /\ cycle.fromBlock = fromBlock
                      /\ \E d \in Durations :
                           cycle.toBlock = Min(latest - confirmationBlocks,
                                               fromBlock + batchSize(d))
                      /\ cycle.fromBlock <= cycle.toBlock
                      /\ latest - cycle.toBlock >= confirmationBlocks
                /\ fromBlock > latest - confirmationBlocks => cycle.pc = "idle"
                /\ scanState' = scanState /\ transfers' = transfers
     /\ confirmationBlocks = 6
          => scanRange(99, 160, 100) = [fromBlock |-> 100, toBlock |-> 154]]_vars

\* the cycle of the example is about to fetch blocks 100 to 154 at height 160
C20_Witness ==
  /\ proc["scan"].pc = "fetch"
  /\ proc["scan"].fromBlock = 100 /\ proc["scan"].toBlock = 154
  /\ latest = 160

\* C22: in a scan-loop cycle the matched events are persisted first, then the
\* cursor is written to toBlock, then the wallet balances are updated: the
\* cursor write finds the save loop over and every matched event whose save
\* did not fail in the Transfer collection, and a wallet or a
\* walletBalanceUpdated flag only changes in a cycle that has written the
\* cursor and that inserts no Transfer any more.
C22_CycleOrder ==
  [][/\ Advance("scan")
          => /\ proc["scan"].events = <<>>
             /\ ~proc["scan"].err
                  => \A i \in 1..Len(proc["scan"].targets) :
                       \E r \in transfers :
                         r.transactionHash = proc["scan"].targets[i].transactionHash
             /\ scanState'.lastScannedBlock = proc["scan"].toBlock
             /\ ~proc["scan"].wrote
             /\ wallets' = wallets
     /\ (\/ wallets' # wallets
         \/ \E r \in transfers, r2 \in transfers' :
              r.id = r2.id /\ r.walletBalanceUpdated # r2.walletBalanceUpdated)
          => /\ proc["scan"].wrote
             /\ proc["scan"].pc \in {"credit", "mark"}
             /\ scanState' = scanState
     /\ proc'["scan"].pc \in {"balance", "credit", "mark"} => proc'["scan"].wrote
     /\ proc'["scan"].pc \in {"find", "insert", "advance"} => ~proc'["scan"].wrote]_vars

\* a cycle has persisted the deposit of block 3, written the cursor and
\* credited the wallet, and is about to mark the Transfer
C22_Witness ==
  /\ proc["scan"].pc = "mark" /\ proc["scan"].wrote
  /\ scanState.lastScannedBlock >= 3
  /\ wallets["w"].balance = 7
  /\ \E r \in transfers : r.transactionHash = "t3" /\ ~r.walletBalanceUpdated

\* every stored Transfer to a wallet has been added to the wallet
Credited ==
  \A r \in transfers :
    r.toAddress \in ActiveWallets => wallets[r.toAddress].totalReceived >= r.amount

\* C21: when the process died after a scan cycle had written the cursor and
\* before the cycle's wallet balances were updated, the balances of the stored
\* Transfers are updated after the restart; the cursor stays past their
\* blocks, so the range is not scanned again.
C21_BalancesRecovered ==
  (crashedAt \in {"balance", "credit"} /\ ~Credited) ~> Credited

====
